---- MODULE Spec2Model ----
(***************************************************************************)
(* Binary resolution and provisioning of the Postgres Language Server      *)
(* VS Code extension: the strategy chain of BinaryFinder, the discovery    *)
(* strategies, createSession and copyBinaryToTemporaryLocation.            *)
(*                                                                         *)
(* A filesystem path is a sequence of segments ("/proj/bin/x" is           *)
(* <<"proj","bin","x">>). A configured path string is a sequence of        *)
(* segments too, with a leading "" segment for a leading slash.            *)
(***************************************************************************)
EXTENDS Integers, Sequences, FiniteSets, TLC

VARIABLES
  operatingMode,  \* CONSTANTS.operatingMode
  config,         \* the "bin" setting of both configuration namespaces
  pathEnv,        \* process.env.PATH, a sequence of directories
  nodePackageAvailable, \* CONSTANTS.*PlatformSpecificNodePackageName defined
  consent,        \* the button the user answers the download prompt with
  fs,             \* the files on disk: path -> [bytes, exec]
  tmpDir,         \* whether {globalStorage}/tmp-bin exists
  pc,             \* position inside createSession
  strategies,     \* the strategy list attemptFind iterates over
  path,           \* the project root handed to attemptFind (NoPath if none)
  idx,            \* attemptFind's loop position
  findResult,     \* what attemptFind returned
  version,        \* createSession's version, then the provisioner's
  location,       \* the provisioner's cache path
  tempBin,        \* what copyBinaryToTemporaryLocation returned
  session,        \* what createSession returned
  log,            \* events of the current createSession call
  copies,         \* every copyFileSync performed, across calls
  history,        \* every provision call that ended, across calls
  callsLeft,      \* createSession calls this run still makes
  changesLeft,    \* replacements of the found binary the installer still makes
  projects,       \* the projects handed to createSession
  download,       \* the last call of downloadPglt outside a resolution
  downloadsLeft,  \* such calls this run still makes
  releases,       \* state.releases: the tags of the cached release list
  now,            \* Date.now(), the clock
  lastNotifiedOfUpdate, \* globalState's "lastNotifiedOfUpdate"
  notifiedAt,     \* when each update notification was shown
  provisions,     \* the provision calls in flight: call -> its position and locals
  invocations,    \* the createActiveSession invocations: invocation -> position
  activeSession,  \* state.activeSession: the invocation whose session it is, or 0
  clients,        \* the language clients created: invocation -> status
  lifecycle,      \* state.state
  pendingEvent,   \* the configuration change event the listener has yet to handle
  edition,        \* how often the settings of the two namespaces have changed
  sessionEdition, \* the edition of the settings the last start or restart read
  configRead,     \* the start or restart under way has read the settings
  restarts        \* the calls of restart() the configuration listener has made

\* what only the concurrent runs use
listenerVars == <<lifecycle, pendingEvent, edition, sessionEdition, configRead, restarts>>
raceVars == <<provisions, invocations, activeSession, clients, listenerVars>>

\* the clock and what the update notification keeps
notifyVars == <<now, lastNotifiedOfUpdate, notifiedAt>>

vars == <<raceVars, operatingMode, config, pathEnv, nodePackageAvailable, consent, fs, tmpDir,
          pc, strategies, path, idx,
          findResult, version, location, tempBin, session, log, copies,
          history, callsLeft, changesLeft, projects, download, downloadsLeft,
          releases, notifyVars>>

-----------------------------------------------------------------------------
(* Bounds *)

MaxCalls == 2
MaxEnvChanges == 1
MaxDownloads == 1
\* the clock's first and last instant in the runs where time passes
FirstInstant == 8
LastInstant == 16

-----------------------------------------------------------------------------
(* Names and paths *)

NoPath == <<>>
NoVersion == "undefined"

newPlatformSpecificBinaryName == "postgres-language-server"
oldPlatformSpecificBinaryName == "postgrestools"
platformIdentifier == "linux-x64"
globalStorageFolderForBinary == "global-bin"
globalStorageFolderTmp == "tmp-bin"

ProjectRoot == <<"proj">>
globalStorageUri == <<"storage">>

\* posix normalisation of a segment list: "." and "" dropped, ".." pops
RECURSIVE NormalizeOnto(_, _)
NormalizeOnto(acc, segs) ==
  IF segs = <<>> THEN acc
  ELSE LET s == Head(segs) IN
       IF s = "." \/ s = "" THEN NormalizeOnto(acc, Tail(segs))
       ELSE IF s = ".."
            THEN NormalizeOnto(IF acc = <<>> THEN acc
                               ELSE SubSeq(acc, 1, Len(acc) - 1), Tail(segs))
            ELSE NormalizeOnto(Append(acc, s), Tail(segs))

Normalize(segs) == NormalizeOnto(<<>>, segs)

\* Uri.joinPath(base, ...segments): join and normalise
JoinPath(base, segs) == Normalize(base \o segs)

\* Uri.file(string): the string taken as an absolute path, never anchored
UriFile(str) == IF str # <<>> /\ Head(str) = "" THEN Tail(str) ELSE str

\* String.startsWith(".")
StartsWithDot(str) == str # <<>> /\ Head(str) \in {".", "..", ".bin"}

-----------------------------------------------------------------------------
(* Binaries and files *)

Versions == {"1.0.0", "1.9.0", "2.0.0"}

\* bytes 1 and 2 are two different builds that report the same version,
\* bytes 3 and 5 report other versions, bytes 4 is a file that reports none
Bytes == 1..5
VersionOfBytes(b) ==
  IF b \in {1, 2} THEN "1.0.0" ELSE IF b = 3 THEN "2.0.0"
  ELSE IF b = 5 THEN "1.9.0" ELSE NoVersion

NoFile == [bytes |-> 0, exec |-> FALSE]
File(b, x) == [bytes |-> b, exec |-> x]

\* the cache path without the version in the file name
CachePathUnversioned(v) ==
  JoinPath(globalStorageUri, <<globalStorageFolderTmp, newPlatformSpecificBinaryName>>)

CachePath(v) ==
  JoinPath(globalStorageUri,
           <<globalStorageFolderTmp, newPlatformSpecificBinaryName \o "-" \o v>>)

CachePaths == {CachePath(v) : v \in Versions \cup {NoVersion}}

SettingsAbsolute == <<"", "opt", "pgls">>
SettingsDotRelative == <<".", "bin", "pgls">>
SettingsParentRelative == <<"..", "proj", "bin", "pgls">>
SettingsBareRelative == <<"bin", "pgls">>

SettingsTargets == {<<"opt", "pgls">>, <<"proj", "bin", "pgls">>, <<"bin", "pgls">>}

\* where module resolution finds the platform-specific package of each identity
Identities == <<"new", "old">>
BinaryNameOf(id) ==
  IF id = "new" THEN newPlatformSpecificBinaryName ELSE oldPlatformSpecificBinaryName
NodePackageDir(id) ==
  IF id = "new" THEN <<"proj", "node_modules", "@postgres-language-server", "cli-linux">>
  ELSE <<"proj", "node_modules", "@postgrestools", "cli-linux">>
NodeModulesPaths == {JoinPath(NodePackageDir(id), <<BinaryNameOf(id)>>) : id \in {"new", "old"}}

\* Yarn Plug'n'Play: the manifests, and where the API resolves the binary to
PnpExtensions == <<"cjs", "js">>
PnpManifest(root, ext) == JoinPath(root, <<".pnp." \o ext>>)
PnpManifests == {PnpManifest(ProjectRoot, e) : e \in {"cjs", "js"}}
PnpResolved(id) ==
  <<"proj", ".yarn", "cache", IF id = "new" THEN "pgls.zip" ELSE "pgt.zip", BinaryNameOf(id)>>
PnpPaths == {PnpResolved(id) : id \in {"new", "old"}}

PathDirs == {<<"usr", "local", "bin">>, <<"usr", "bin">>}
PathPaths == {JoinPath(d, <<BinaryNameOf(id)>>) : d \in PathDirs, id \in {"new", "old"}}

InstalledBinaryPath(id) ==
  JoinPath(globalStorageUri, <<globalStorageFolderForBinary, BinaryNameOf(id)>>)
InstallPaths == {InstalledBinaryPath(id) : id \in {"new", "old"}}

FsPaths == SettingsTargets \cup NodeModulesPaths \cup PnpManifests \cup PnpPaths
           \cup PathPaths \cup InstallPaths \cup CachePaths

FileIn(f, p) == LET n == Normalize(p) IN IF n \in DOMAIN f THEN f[n] ELSE NoFile

ExistsIn(f, p) == FileIn(f, p).bytes # 0

VersionIn(f, p) ==
  IF ExistsIn(f, p) /\ FileIn(f, p).exec THEN VersionOfBytes(FileIn(f, p).bytes)
  ELSE NoVersion

fileExists(p) == ExistsIn(fs, p)

fileIsExecutable(p) == fileExists(p) /\ FileIn(fs, p).exec

getVersion(p) == VersionIn(fs, p)

-----------------------------------------------------------------------------
(* Configuration *)

Unset == [kind |-> "unset", str |-> <<>>, obj |-> {}]
Str(x) == [kind |-> "string", str |-> x, obj |-> {}]
Obj(pairs) == [kind |-> "object", str |-> <<>>, obj |-> pairs]

\* undefined, "" and null are not values of the new namespace
IsSetInNewNamespace(v) ==
  v.kind \notin {"unset", "boolean"} /\ ~(v.kind = "string" /\ v.str = <<>>)

getConfig(key) ==
  LET newValue == config.new[key]
      oldValue == config.old[key]
  IN IF IsSetInNewNamespace(newValue) THEN newValue ELSE oldValue

-----------------------------------------------------------------------------
(* Discovery strategies. Each find yields                                  *)
(*   [outcome |-> "found" | "none" | "raised", bin, events]                *)
(* where events are what it showed to the user or examined on disk.        *)

Event(e, k, a) == [ev |-> e, kind |-> k, arg |-> a]

Found(b, evs) == [outcome |-> "found", bin |-> b, events |-> evs]
NotFound(evs) == [outcome |-> "none", bin |-> NoPath, events |-> evs]
Raised(evs) == [outcome |-> "raised", bin |-> NoPath, events |-> evs]

\* lines 95-105 of the settings strategy: look at one resolved path
SettingsLookAt(resolvedPath) ==
  IF resolvedPath = <<>> THEN NotFound(<<>>)
  ELSE LET bin == UriFile(resolvedPath)
           seen == <<Event("examine", "VsCodeSettings", bin)>>
       IN IF fileExists(bin) THEN Found(bin, seen) ELSE NotFound(seen)

vsCodeSettingsFind(p) ==
  LET raw == getConfig("bin")
      relevant == IF raw.kind = "object"
                  THEN {pr \in raw.obj : pr[1] = platformIdentifier /\ pr[2] # <<>>}
                  ELSE {}
      binSetting == IF relevant # {} THEN Str((CHOOSE pr \in relevant : TRUE)[2]) ELSE raw
  IN IF ~(raw.kind = "object" \/ (raw.kind = "string" /\ raw.str # <<>>))
     THEN NotFound(<<>>)
     ELSE IF binSetting.kind = "string"
     THEN IF StartsWithDot(binSetting.str)
          THEN IF operatingMode = "multi_root"
               THEN NotFound(<<Event("showErrorMessage", "VsCodeSettings", <<"relative-multi-root">>)>>)
               ELSE IF p # NoPath
               THEN SettingsLookAt(<<"">> \o JoinPath(p, binSetting.str))
               ELSE NotFound(<<Event("logger.error", "VsCodeSettings", <<"relative-no-root">>)>>)
          ELSE SettingsLookAt(binSetting.str)
     ELSE NotFound(<<>>)

\* What module resolution answers for one package identity:
\*   main   "missing" (cannot find module) | "error" (any other error) | "ok"
\*   nested "throws" | "ok" (resolving the platform-specific package)
ResolverAnswers == [main : {"missing", "error", "ok"}, nested : {"throws", "ok"}]

\* a lookup result with the events that led to it put in front
After(evs, res) == [res EXCEPT !.events = evs \o @]

RECURSIVE nodeModulesLoop(_, _)
nodeModulesLoop(ids, r) ==
  IF ids = <<>> THEN NotFound(<<>>)
  ELSE LET id == Head(ids)
           bin == JoinPath(NodePackageDir(id), <<BinaryNameOf(id)>>)
           main == <<Event("resolve", "NPM", <<id, r[id].main>>)>>
           nested == Append(main, Event("resolveNested", "NPM", <<id, r[id].nested>>))
           seen == Append(nested, Event("examine", "NPM", bin))
       IN IF r[id].main = "missing" THEN After(main, nodeModulesLoop(Tail(ids), r))
          ELSE IF r[id].main = "error" THEN Raised(main)
          ELSE IF ~nodePackageAvailable THEN NotFound(main)
          ELSE IF r[id].nested = "throws" THEN Raised(nested)
          ELSE IF fileExists(bin) THEN Found(bin, seen)
          ELSE After(seen, nodeModulesLoop(Tail(ids), r))

nodeModulesFind(p, r) ==
  IF p = NoPath THEN NotFound(<<>>) ELSE nodeModulesLoop(Identities, r)

\* What a Plug'n'Play manifest answers: loading it ("ok" | "throws"), and the
\* two resolveRequest calls for each identity ("ok" | "throws")
PnpAnswers == [load : {"ok", "throws"}, new : {"ok", "throws"}, old : {"ok", "throws"}]

\* the requests without the try/catch: a request that fails ends the lookup
RECURSIVE yarnPnpRequestsUncaught(_, _, _)
yarnPnpRequestsUncaught(ids, ext, a) ==
  IF ids = <<>> THEN NotFound(<<>>)
  ELSE LET id == Head(ids)
           asked == <<Event("resolveRequest", "Yarn", <<ext, id, a[id]>>)>>
       IN IF ~nodePackageAvailable THEN yarnPnpRequestsUncaught(Tail(ids), ext, a)
          ELSE IF a[id] = "ok" THEN Found(PnpResolved(id), asked)
          ELSE Raised(asked)

RECURSIVE yarnPnpRequests(_, _, _)
yarnPnpRequests(ids, ext, a) ==
  IF ids = <<>> THEN NotFound(<<>>)
  ELSE LET id == Head(ids)
           asked == <<Event("resolveRequest", "Yarn", <<ext, id, a[id]>>)>>
       IN IF ~nodePackageAvailable THEN yarnPnpRequests(Tail(ids), ext, a)
          ELSE IF a[id] = "ok" THEN Found(PnpResolved(id), asked)
          ELSE After(asked, yarnPnpRequests(Tail(ids), ext, a))

RECURSIVE yarnPnpLoop(_, _, _)
yarnPnpLoop(exts, p, r) ==
  IF exts = <<>> THEN NotFound(<<>>)
  ELSE LET ext == Head(exts)
           loaded == <<Event("require", "Yarn", <<ext, r[ext].load>>)>>
       IN IF ~fileExists(PnpManifest(p, ext)) THEN yarnPnpLoop(Tail(exts), p, r)
          ELSE IF r[ext].load = "throws" THEN Raised(loaded)
          ELSE LET got == After(loaded, yarnPnpRequests(Identities, ext, r[ext])) IN
               IF got.outcome # "none" THEN got
               ELSE After(got.events, yarnPnpLoop(Tail(exts), p, r))

yarnPnpFind(p, r) ==
  IF p = NoPath THEN NotFound(<<>>) ELSE yarnPnpLoop(PnpExtensions, p, r)

RECURSIVE pathNames(_, _)
pathNames(dir, names) ==
  IF names = <<>> THEN NotFound(<<>>)
  ELSE LET bin == JoinPath(dir, <<Head(names)>>) IN
       IF fileExists(bin) THEN Found(bin, <<>>) ELSE pathNames(dir, Tail(names))

RECURSIVE pathDirsLoop(_)
pathDirsLoop(dirs) ==
  IF dirs = <<>> THEN NotFound(<<>>)
  ELSE LET got == pathNames(Head(dirs),
                            <<newPlatformSpecificBinaryName, oldPlatformSpecificBinaryName>>)
       IN IF got.outcome = "found" THEN got ELSE pathDirsLoop(Tail(dirs))

\* the two loops the other way round: each name is looked for in every
\* directory before the next name is
pathEnvironmentVariableFindNamesFirst ==
  LET has(n) == {i \in 1..Len(pathEnv) : fileExists(JoinPath(pathEnv[i], <<n>>))}
      first(S) == CHOOSE i \in S : \A j \in S : i <= j
      at(n) == JoinPath(pathEnv[first(has(n))], <<n>>)
  IN IF has(newPlatformSpecificBinaryName) # {}
     THEN Found(at(newPlatformSpecificBinaryName), <<>>)
     ELSE IF has(oldPlatformSpecificBinaryName) # {}
     THEN Found(at(oldPlatformSpecificBinaryName), <<>>)
     ELSE NotFound(<<>>)

pathEnvironmentVariableFind ==
  IF pathEnv = <<>> THEN NotFound(<<>>) ELSE pathDirsLoop(pathEnv)

-----------------------------------------------------------------------------
(* Downloader *)

\* the release asset published for a tag
AssetBytes(tag) == IF tag = "1.0.0" THEN 1 ELSE 3

NoPick == "none"

\* What the user and the network answer during one download flow
DownloadAnswers ==
  {a \in [pick : {"1.0.0", "2.0.0", NoPick}, newName : BOOLEAN,
          fetch : {"ok", "http-error", "network-error"},
          write : {"ok", "write-fails", "chmod-fails"}] :
     /\ a.pick = NoPick => (~a.newName /\ a.fetch = "ok")
     /\ (a.pick = NoPick \/ a.fetch = "network-error") => a.write = "ok"}

\* getDownloadedBinary going on to the next name when a file has no version
RECURSIVE getDownloadedBinaryLoopSkipping(_, _)
getDownloadedBinaryLoopSkipping(f, ids) ==
  IF ids = <<>> THEN NotFound(<<>>)
  ELSE LET bin == InstalledBinaryPath(Head(ids)) IN
       IF ExistsIn(f, bin) /\ VersionIn(f, bin) # NoVersion
       THEN Found(bin, <<>>)
       ELSE getDownloadedBinaryLoopSkipping(f, Tail(ids))

RECURSIVE getDownloadedBinaryLoop(_, _)
getDownloadedBinaryLoop(f, ids) ==
  IF ids = <<>> THEN NotFound(<<>>)
  ELSE LET bin == InstalledBinaryPath(Head(ids)) IN
       IF ExistsIn(f, bin)
       THEN IF VersionIn(f, bin) = NoVersion THEN Raised(<<>>) ELSE Found(bin, <<>>)
       ELSE getDownloadedBinaryLoop(f, Tail(ids))

getDownloadedBinary(f) == getDownloadedBinaryLoop(f, Identities)

\* downloadPgltVersion writing what had arrived when the connection broke
downloadPgltVersionPartial(f, tag, a) ==
  LET asset == <<tag, IF a.newName THEN "new-asset" ELSE "old-asset">>
      probe == <<Event("hasNewName", "Download", <<>>), Event("fetch", "Download", asset)>>
      binPath == InstalledBinaryPath(IF a.newName THEN "new" ELSE "old")
      bytes == IF a.fetch = "ok" THEN AssetBytes(tag) ELSE 4
  IN IF a.fetch = "network-error"
     THEN [fs |-> [f EXCEPT ![binPath] = File(4, f[binPath].exec)],
           events |-> Append(probe, Event("showErrorMessage", "Download", <<"download-failed">> \o asset))]
     ELSE IF a.write = "write-fails"
     THEN [fs |-> f,
           events |-> Append(probe, Event("showErrorMessage", "Download", <<"save-failed">>))]
     ELSE IF a.write = "chmod-fails"
     THEN [fs |-> [f EXCEPT ![binPath] = File(bytes, f[binPath].exec)],
           events |-> probe \o <<Event("writeFile", "Download", binPath),
                                 Event("showErrorMessage", "Download", <<"save-failed">>)>>]
     ELSE [fs |-> [f EXCEPT ![binPath] = File(bytes, TRUE)],
           events |-> probe \o <<Event("writeFile", "Download", binPath),
                                 Event("showInformationMessage", "Download", <<"downloaded">>)>>]

\* downloadPgltVersion: [fs, events] after the download of one tag
downloadPgltVersion(f, tag, a) ==
  LET asset == <<tag, IF a.newName THEN "new-asset" ELSE "old-asset">>
      probe == <<Event("hasNewName", "Download", <<>>), Event("fetch", "Download", asset)>>
      binPath == InstalledBinaryPath(IF a.newName THEN "new" ELSE "old")
      bytes == IF a.fetch = "ok" THEN AssetBytes(tag) ELSE 4
  IN IF a.fetch = "network-error"
     THEN [fs |-> f,
           events |-> Append(probe, Event("showErrorMessage", "Download", <<"download-failed">> \o asset))]
     ELSE IF a.write = "write-fails"
     THEN [fs |-> f,
           events |-> Append(probe, Event("showErrorMessage", "Download", <<"save-failed">>))]
     ELSE IF a.write = "chmod-fails"
     THEN [fs |-> [f EXCEPT ![binPath] = File(bytes, f[binPath].exec)],
           events |-> probe \o <<Event("writeFile", "Download", binPath),
                                 Event("showErrorMessage", "Download", <<"save-failed">>)>>]
     ELSE [fs |-> [f EXCEPT ![binPath] = File(bytes, TRUE)],
           events |-> probe \o <<Event("writeFile", "Download", binPath),
                                 Event("showInformationMessage", "Download", <<"downloaded">>)>>]

\* promptVersionToDownload, lines 123-125: the version the picker marks as
\* currently installed; an error of the lookup counts as none
currentlyInstalled(f) ==
  LET downloadedBinary == getDownloadedBinary(f) IN
    IF downloadedBinary.outcome = "found" THEN VersionIn(f, downloadedBinary.bin)
    ELSE NoVersion

\* downloadPglt taking the newest release when the picker is dismissed
downloadPgltNewestByDefault(f, a) ==
  LET picker == <<Event("showQuickPick", "Download", <<a.pick, currentlyInstalled(f)>>)>>
      tag == IF a.pick = NoPick THEN "2.0.0" ELSE a.pick
      done == downloadPgltVersion(f, tag, a)
      downloaded == getDownloadedBinary(done.fs)
  IN [outcome |-> downloaded.outcome, bin |-> downloaded.bin,
      events |-> picker \o done.events, fs |-> done.fs]

\* downloadPglt: [outcome, bin, events, fs]
downloadPglt(f, a) ==
  LET picker == <<Event("showQuickPick", "Download", <<a.pick, currentlyInstalled(f)>>)>> IN
  IF a.pick = NoPick
  THEN [outcome |-> "none", bin |-> NoPath, events |-> picker, fs |-> f]
  ELSE LET done == downloadPgltVersion(f, a.pick, a)
           downloaded == getDownloadedBinary(done.fs)
       IN [outcome |-> downloaded.outcome, bin |-> downloaded.bin,
           events |-> picker \o done.events, fs |-> done.fs]

\* what showInformationMessage may resolve to: a button, or nothing when
\* the prompt is dismissed
DownloadAndInstall == "Download and install"
PromptAnswers == {DownloadAndInstall, "No", "dismissed"}

\* downloadPgltStrategy.find going on to the download whatever the answer
downloadPgltFindUnasked(f, a) ==
  LET downloadedBinary == getDownloadedBinary(f)
      prompt == <<Event("showInformationMessage", "Download", <<"consent-prompt">>)>>
  IN IF downloadedBinary.outcome # "none"
     THEN [outcome |-> downloadedBinary.outcome, bin |-> downloadedBinary.bin,
           events |-> <<>>, fs |-> f]
     ELSE LET got == downloadPglt(f, a)
          IN [got EXCEPT !.events = prompt \o got.events]

\* downloadPgltStrategy.find: [outcome, bin, events, fs]
downloadPgltFind(f, a) ==
  LET downloadedBinary == getDownloadedBinary(f)
      prompt == <<Event("showInformationMessage", "Download", <<"consent-prompt">>)>>
  IN IF downloadedBinary.outcome # "none"
     THEN [outcome |-> downloadedBinary.outcome, bin |-> downloadedBinary.bin,
           events |-> <<>>, fs |-> f]
     ELSE IF consent # DownloadAndInstall
     THEN [outcome |-> "none", bin |-> NoPath, events |-> prompt, fs |-> f]
     ELSE LET got == downloadPglt(f, a)
          IN [got EXCEPT !.events = prompt \o got.events]

-----------------------------------------------------------------------------
(* BinaryFinder *)

Strategy(l, k, s) == [label |-> l, kind |-> k, strategy |-> s, condition |-> "none"]

\* the local list with PATH moved in front of the package managers
LOCAL_STRATEGIES_PathEarly ==
  << Strategy("VSCode Settings", "VsCodeSettings", "vsCodeSettingsStrategy"),
     Strategy("PATH Environment Variable", "Path", "pathEnvironmentVariableStrategy"),
     Strategy("NPM node_modules", "NPM", "nodeModulesStrategy"),
     Strategy("Yarn Plug'n'Play node_modules", "Yarn", "yarnPnpStrategy"),
     Strategy("Downloaded Binary", "Download", "downloadPgltStrategy") >>

\* the local list with the download moved in front of PATH
LOCAL_STRATEGIES_DownloadEarly ==
  << Strategy("VSCode Settings", "VsCodeSettings", "vsCodeSettingsStrategy"),
     Strategy("NPM node_modules", "NPM", "nodeModulesStrategy"),
     Strategy("Yarn Plug'n'Play node_modules", "Yarn", "yarnPnpStrategy"),
     Strategy("Downloaded Binary", "Download", "downloadPgltStrategy"),
     Strategy("PATH Environment Variable", "Path", "pathEnvironmentVariableStrategy") >>

LOCAL_STRATEGIES ==
  << Strategy("VSCode Settings", "VsCodeSettings", "vsCodeSettingsStrategy"),
     Strategy("NPM node_modules", "NPM", "nodeModulesStrategy"),
     Strategy("Yarn Plug'n'Play node_modules", "Yarn", "yarnPnpStrategy"),
     Strategy("PATH Environment Variable", "Path", "pathEnvironmentVariableStrategy"),
     Strategy("Downloaded Binary", "Download", "downloadPgltStrategy") >>

GLOBAL_STRATEGIES ==
  << Strategy("VSCode Settings", "VsCodeSettings", "vsCodeSettingsStrategy"),
     Strategy("PATH Environment Variable", "Path", "pathEnvironmentVariableStrategy"),
     Strategy("Downloaded Binary", "Download", "downloadPgltStrategy") >>

NoResult == [bin |-> NoPath, label |-> "", kind |-> ""]

\* what a strategy's optional condition may answer
ConditionAnswers(s) == IF s.condition = "none" THEN {TRUE} ELSE BOOLEAN

\* attemptFind without its try/catch: an error of find leaves attemptFind
AttemptFindStepUncaught(s, c, r) ==
  LET after == IF idx = Len(strategies) THEN "resolved" ELSE "find" IN
  IF r.outcome = "found"
  THEN /\ log' = log \o <<Event("find", s.kind, <<>>)>> \o r.events
                     \o <<Event("onSuccess", s.kind, r.bin)>>
       /\ findResult' = [bin |-> r.bin, label |-> s.label, kind |-> s.kind]
       /\ idx' = idx
       /\ pc' = "resolved"
  ELSE /\ log' = log \o <<Event("find", s.kind, <<>>)>> \o r.events
                     \o (IF r.outcome = "raised"
                         THEN <<Event("raised", s.kind, <<>>), Event("throw", "attemptFind", <<>>)>>
                         ELSE <<Event(r.outcome, s.kind, <<>>)>>)
       /\ findResult' = NoResult
       /\ idx' = idx + 1
       /\ pc' = IF r.outcome = "raised" THEN "idle" ELSE after

\* attemptFind with the return after onSuccess left out: the loop goes on
AttemptFindStepCollectAll(s, c, r) ==
  LET after == IF idx = Len(strategies) THEN "resolved" ELSE "find"
      kept == IF findResult # NoResult THEN findResult
              ELSE [bin |-> r.bin, label |-> s.label, kind |-> s.kind]
  IN IF r.outcome = "found"
     THEN /\ log' = log \o <<Event("find", s.kind, <<>>)>> \o r.events
                        \o <<Event("onSuccess", s.kind, r.bin)>>
          /\ findResult' = kept
          /\ idx' = idx + 1
          /\ pc' = after
     ELSE /\ log' = log \o <<Event("find", s.kind, <<>>)>> \o r.events
                        \o <<Event(r.outcome, s.kind, <<>>)>>
          /\ findResult' = findResult
          /\ idx' = idx + 1
          /\ pc' = after

\* One iteration of attemptFind's loop over strategy s, whose condition
\* answered c and whose find answered r; returning is part of the iteration
\* that ends the loop.
AttemptFindStep(s, c, r) ==
  LET after == IF idx = Len(strategies) THEN "resolved" ELSE "find" IN
  IF s.condition # "none" /\ ~c
  THEN /\ log' = Append(log, Event("skip", s.kind, <<>>))
       /\ findResult' = NoResult
       /\ idx' = idx + 1
       /\ pc' = after
  ELSE IF r.outcome = "found"
  THEN /\ log' = log \o <<Event("find", s.kind, <<>>)>> \o r.events
                     \o <<Event("onSuccess", s.kind, r.bin)>>
       /\ findResult' = [bin |-> r.bin, label |-> s.label, kind |-> s.kind]
       /\ idx' = idx
       /\ pc' = "resolved"
  ELSE /\ log' = log \o <<Event("find", s.kind, <<>>)>> \o r.events
                     \o <<Event(r.outcome, s.kind, <<>>)>>
       /\ findResult' = NoResult
       /\ idx' = idx + 1
       /\ pc' = after

Current == strategies[idx]

AtStrategy(name) ==
  pc = "find" /\ idx <= Len(strategies) /\ Current.strategy = name

sessionFrame == <<raceVars, operatingMode, config, pathEnv, nodePackageAvailable, consent, strategies, path,
                  version, location, tempBin, session, copies, history, callsLeft,
                  changesLeft, tmpDir, projects, download, downloadsLeft, releases,
                  notifyVars>>

TrySettings ==
  /\ AtStrategy("vsCodeSettingsStrategy")
  /\ \E c \in ConditionAnswers(Current) :
       AttemptFindStep(Current, c, vsCodeSettingsFind(path))
  /\ UNCHANGED <<fs, sessionFrame>>

TryNodeModules ==
  /\ AtStrategy("nodeModulesStrategy")
  /\ \E c \in ConditionAnswers(Current), r \in [new : ResolverAnswers, old : ResolverAnswers] :
       AttemptFindStep(Current, c, nodeModulesFind(path, r))
  /\ UNCHANGED <<fs, sessionFrame>>

TryYarnPnp ==
  /\ AtStrategy("yarnPnpStrategy")
  /\ \E c \in ConditionAnswers(Current), r \in [cjs : PnpAnswers, js : PnpAnswers] :
       AttemptFindStep(Current, c, yarnPnpFind(path, r))
  /\ UNCHANGED <<fs, sessionFrame>>

TryPath ==
  /\ AtStrategy("pathEnvironmentVariableStrategy")
  /\ \E c \in ConditionAnswers(Current) :
       AttemptFindStep(Current, c, pathEnvironmentVariableFind)
  /\ UNCHANGED <<fs, sessionFrame>>

TryDownload ==
  /\ AtStrategy("downloadPgltStrategy")
  /\ \E c \in ConditionAnswers(Current), a \in DownloadAnswers :
       LET r == downloadPgltFind(fs, a) IN
         /\ AttemptFindStep(Current, c, r)
         /\ fs' = IF Current.condition # "none" /\ ~c THEN fs ELSE r.fs
  /\ UNCHANGED sessionFrame

-----------------------------------------------------------------------------
(* Versions and the release list *)

\* semver.parse of the versions that occur
SemverOf(v) ==
  IF v = "0.8.0" THEN <<0, 8, 0>>
  ELSE IF v = "1.0.0" THEN <<1, 0, 0>>
  ELSE IF v = "1.9.0" THEN <<1, 9, 0>>
  ELSE IF v = "2.0.0" THEN <<2, 0, 0>>
  ELSE <<0, 0, 0>>

TripleLt(a, b) ==
  \/ a[1] < b[1]
  \/ a[1] = b[1] /\ a[2] < b[2]
  \/ a[1] = b[1] /\ a[2] = b[2] /\ a[3] < b[3]

SemverLt(v, w) == TripleLt(SemverOf(v), SemverOf(w))
SemverGte(v, w) == ~SemverLt(v, w)

\* the release list: its first element, as the newest-first order has it
latestVersion == IF releases = <<>> THEN NoVersion ELSE releases[1]

\* the installed version is older than the newest known tag
versionOutdated(v) == releases # <<>> /\ SemverLt(v, latestVersion)

-----------------------------------------------------------------------------
(* The migration message *)

StrategyKind == {"NPM", "Yarn", "VsCodeSettings", "Path", "Download"}

\* the switch with the case of Download fallen out
updateAndRenamingMessageForKindPartial(kind) ==
  IF kind \in {"NPM", "Yarn"}
  THEN [raised |-> FALSE, message |-> "use-the-new-package"]
  ELSE IF kind \in {"Path", "VsCodeSettings"}
  THEN [raised |-> FALSE, message |-> "get-the-binary-from-the-new-name"]
  ELSE [raised |-> TRUE, message |-> "Unreachable"]

updateAndRenamingMessageForKind(kind) ==
  IF kind \in {"NPM", "Yarn"}
  THEN [raised |-> FALSE, message |-> "use-the-new-package"]
  ELSE IF kind \in {"Download", "Path", "VsCodeSettings"}
  THEN [raised |-> FALSE, message |-> "get-the-binary-from-the-new-name"]
  ELSE [raised |-> TRUE, message |-> "Unreachable"]

renamingMessageForKind(kind) ==
  IF kind \in {"NPM", "Yarn"}
  THEN [raised |-> FALSE, message |-> "warning-use-the-new-package"]
  ELSE IF kind \in {"Download", "Path", "VsCodeSettings"}
  THEN [raised |-> FALSE, message |-> "warning-use-a-binary-from-the-new-package"]
  ELSE [raised |-> TRUE, message |-> "Unreachable"]

-----------------------------------------------------------------------------
(* The clock, in half days since the epoch, and the stored instant of the   *)
(* last update check                                                        *)

DayLength == 2
daysToMs(d) == d * DayLength
Epoch == 0

\* globalState holds no "lastNotifiedOfUpdate"
NeverNotified == <<>>

\* Date.prototype.toISOString and new Date(string).getTime()
toISOString(t) == <<"iso", t>>
getTime(str) == str[2]

\* lines 71-75: more than three days since the stored instant, the epoch
\* if none is stored
notifyDue ==
  LET last == IF lastNotifiedOfUpdate = NeverNotified
              THEN toISOString(Epoch)
              ELSE lastNotifiedOfUpdate
  IN now - getTime(last) > daysToMs(3)

\* the instants at which the awaits of lines 78 and 84 may settle
SettledAt(awaited) ==
  IF awaited THEN {t \in {now, now + 1} : t <= LastInstant} ELSE {now}

-----------------------------------------------------------------------------
(* createSession *)

NoSession == [bin |-> NoPath, tempBin |-> NoPath, binaryStrategyLabel |-> "", command |-> NoPath]

\* the projects createActiveSession hands over in each operating mode
ProjectsOf(mode) ==
  IF mode = "single_root" THEN {<<ProjectRoot>>}
  ELSE {<<ProjectRoot>>, <<ProjectRoot, <<"other">>>>}

\* lines 42-45 deciding by the projects alone, whatever the operating mode
CreateSessionByProjects ==
  /\ pc = "idle"
  /\ callsLeft > 0
  /\ \E given \in ProjectsOf(operatingMode) :
       LET local == given # <<>> IN
         /\ projects' = given
         /\ strategies' = IF local THEN LOCAL_STRATEGIES ELSE GLOBAL_STRATEGIES
         /\ path' = IF local THEN given[1] ELSE NoPath
  /\ idx' = 1
  /\ pc' = "find"
  /\ findResult' = NoResult
  /\ version' = NoVersion
  /\ location' = NoPath
  /\ tempBin' = NoPath
  /\ session' = NoSession
  /\ log' = <<>>
  /\ callsLeft' = callsLeft - 1
  /\ UNCHANGED <<raceVars, operatingMode, config, pathEnv, nodePackageAvailable, consent, fs, tmpDir,
                 copies, history, changesLeft, download, downloadsLeft, releases,
                 notifyVars>>

\* lines 42-45: pick the strategy list and enter attemptFind
CreateSession ==
  /\ pc = "idle"
  /\ callsLeft > 0
  /\ \E given \in ProjectsOf(operatingMode) :
       LET local == operatingMode = "single_root" /\ given # <<>> IN
         /\ projects' = given
         /\ strategies' = IF local THEN LOCAL_STRATEGIES ELSE GLOBAL_STRATEGIES
         /\ path' = IF local THEN given[1] ELSE NoPath
  /\ idx' = 1
  /\ pc' = "find"
  /\ findResult' = NoResult
  /\ version' = NoVersion
  /\ location' = NoPath
  /\ tempBin' = NoPath
  /\ session' = NoSession
  /\ log' = <<>>
  /\ callsLeft' = callsLeft - 1
  /\ UNCHANGED <<raceVars, operatingMode, config, pathEnv, nodePackageAvailable, consent, fs, tmpDir,
                 copies, history, changesLeft, download, downloadsLeft, releases,
                 notifyVars>>

afterFindFrame == <<raceVars, operatingMode, config, pathEnv, nodePackageAvailable, consent, strategies,
                    path, idx, findResult, callsLeft, changesLeft, projects, download,
                    downloadsLeft, releases, notifyVars>>

\* lines 47-53 without the return: the call goes on to provision
ReportNotFoundGoesOn ==
  /\ pc = "resolved"
  /\ findResult = NoResult
  /\ log' = Append(log, Event("showErrorMessage", "createSession", <<"unable-to-find">>))
  /\ session' = NoSession
  /\ pc' = "provision"
  /\ UNCHANGED <<afterFindFrame, fs, tmpDir, version, location, tempBin, copies, history>>

\* lines 47-53: nothing found
ReportNotFound ==
  /\ pc = "resolved"
  /\ findResult = NoResult
  /\ log' = Append(log, Event("showErrorMessage", "createSession", <<"unable-to-find">>))
  /\ session' = NoSession
  /\ pc' = "idle"
  /\ UNCHANGED <<afterFindFrame, fs, tmpDir, version, location, tempBin, copies, history>>

\* lines 55-69 without the return after the error message
CheckBinaryGoesOn ==
  /\ pc = "resolved"
  /\ findResult # NoResult
  /\ IF ~fileIsExecutable(findResult.bin)
     THEN /\ log' = Append(log, Event("showErrorMessage", "createSession", <<"not-executable">>))
          /\ version' = version
          /\ pc' = "notify"
     ELSE LET v == getVersion(findResult.bin) IN
          IF v = NoVersion
          THEN /\ log' = log \o <<Event("getVersion", "createSession", findResult.bin),
                                  Event("throw", "createSession", <<"version-should-exist">>)>>
               /\ version' = version
               /\ pc' = "idle"
          ELSE /\ log' = Append(log, Event("getVersion", "createSession", findResult.bin))
               /\ version' = v
               /\ pc' = "notify"
  /\ UNCHANGED <<afterFindFrame, fs, tmpDir, location, tempBin, session, copies, history>>

\* lines 55-69: the executable check and the version probe
CheckBinary ==
  /\ pc = "resolved"
  /\ findResult # NoResult
  /\ IF ~fileIsExecutable(findResult.bin)
     THEN /\ log' = Append(log, Event("showErrorMessage", "createSession", <<"not-executable">>))
          /\ version' = version
          /\ pc' = "idle"
     ELSE LET v == getVersion(findResult.bin) IN
          IF v = NoVersion
          THEN /\ log' = log \o <<Event("getVersion", "createSession", findResult.bin),
                                  Event("throw", "createSession", <<"version-should-exist">>)>>
               /\ version' = version
               /\ pc' = "idle"
          ELSE /\ log' = Append(log, Event("getVersion", "createSession", findResult.bin))
               /\ version' = v
               /\ pc' = "notify"
  /\ UNCHANGED <<afterFindFrame, fs, tmpDir, location, tempBin, session, copies, history>>

\* lines 71-97 with the notification shown whether or not the version is
\* outdated
NotifyAnyVersion ==
  /\ pc = "notify"
  /\ LET ask == notifyDue IN
     \E newName \in (IF ask THEN BOOLEAN ELSE {FALSE}), later \in SettledAt(notifyDue) :
       LET renaming == updateAndRenamingMessageForKind(findResult.kind)
           probe == <<Event("hasNewName", "createSession", <<>>)>>
           update == IF newName
                     THEN Event("showInformationMessage", "createSession", <<renaming.message>>)
                     ELSE Event("showInformationMessage", "createSession",
                                <<"update-available", version, latestVersion>>)
           warning == IF operatingMode = "multi_root" /\ ~SemverGte(version, "0.8.0")
                      THEN <<Event("showInformationMessage", "createSession",
                                   <<"no-multi-root-support", version>>)>>
                      ELSE <<>>
       IN IF ask /\ newName /\ renaming.raised
          THEN /\ log' = log \o probe \o <<Event("throw", "createSession", <<renaming.message>>)>>
               /\ UNCHANGED notifyVars
               /\ pc' = "idle"
          ELSE /\ log' = log \o (IF ask THEN Append(probe, update) ELSE <<>>) \o warning
               /\ now' = later
               /\ lastNotifiedOfUpdate' =
                    IF notifyDue THEN toISOString(later) ELSE lastNotifiedOfUpdate
               /\ notifiedAt' = IF ask THEN Append(notifiedAt, later) ELSE notifiedAt
               /\ pc' = "provision"
  /\ UNCHANGED <<raceVars, operatingMode, config, pathEnv, nodePackageAvailable, consent, strategies,
                 path, idx, findResult, callsLeft, changesLeft, projects, download,
                 downloadsLeft, releases, fs, tmpDir, version, location, tempBin, session,
                 copies, history>>

\* lines 71-97 with the instant stored only when a notification was shown
NotifyStampWhenShown ==
  /\ pc = "notify"
  /\ LET ask == notifyDue /\ versionOutdated(version) IN
     \E newName \in (IF ask THEN BOOLEAN ELSE {FALSE}), later \in SettledAt(notifyDue) :
       LET renaming == updateAndRenamingMessageForKind(findResult.kind)
           probe == <<Event("hasNewName", "createSession", <<>>)>>
           update == IF newName
                     THEN Event("showInformationMessage", "createSession", <<renaming.message>>)
                     ELSE Event("showInformationMessage", "createSession",
                                <<"update-available", version, latestVersion>>)
           warning == IF operatingMode = "multi_root" /\ ~SemverGte(version, "0.8.0")
                      THEN <<Event("showInformationMessage", "createSession",
                                   <<"no-multi-root-support", version>>)>>
                      ELSE <<>>
       IN IF ask /\ newName /\ renaming.raised
          THEN /\ log' = log \o probe \o <<Event("throw", "createSession", <<renaming.message>>)>>
               /\ UNCHANGED notifyVars
               /\ pc' = "idle"
          ELSE /\ log' = log \o (IF ask THEN Append(probe, update) ELSE <<>>) \o warning
               /\ now' = later
               /\ lastNotifiedOfUpdate' =
                    IF ask THEN toISOString(later) ELSE lastNotifiedOfUpdate
               /\ notifiedAt' = IF ask THEN Append(notifiedAt, later) ELSE notifiedAt
               /\ pc' = "provision"
  /\ UNCHANGED <<raceVars, operatingMode, config, pathEnv, nodePackageAvailable, consent, strategies,
                 path, idx, findResult, callsLeft, changesLeft, projects, download,
                 downloadsLeft, releases, fs, tmpDir, version, location, tempBin, session,
                 copies, history>>

\* lines 71-97: the update notification, at most once in three days, and
\* the multi-root warning
Notify ==
  /\ pc = "notify"
  /\ LET ask == notifyDue /\ versionOutdated(version) IN
     \E newName \in (IF ask THEN BOOLEAN ELSE {FALSE}), later \in SettledAt(notifyDue) :
       LET renaming == updateAndRenamingMessageForKind(findResult.kind)
           probe == <<Event("hasNewName", "createSession", <<>>)>>
           update == IF newName
                     THEN Event("showInformationMessage", "createSession", <<renaming.message>>)
                     ELSE Event("showInformationMessage", "createSession",
                                <<"update-available", version, latestVersion>>)
           warning == IF operatingMode = "multi_root" /\ ~SemverGte(version, "0.8.0")
                      THEN <<Event("showInformationMessage", "createSession",
                                   <<"no-multi-root-support", version>>)>>
                      ELSE <<>>
       IN IF ask /\ newName /\ renaming.raised
          THEN /\ log' = log \o probe \o <<Event("throw", "createSession", <<renaming.message>>)>>
               /\ UNCHANGED notifyVars
               /\ pc' = "idle"
          ELSE /\ log' = log \o (IF ask THEN Append(probe, update) ELSE <<>>) \o warning
               /\ now' = later
               /\ lastNotifiedOfUpdate' =
                    IF notifyDue THEN toISOString(later) ELSE lastNotifiedOfUpdate
               /\ notifiedAt' = IF ask THEN Append(notifiedAt, later) ELSE notifiedAt
               /\ pc' = "provision"
  /\ UNCHANGED <<raceVars, operatingMode, config, pathEnv, nodePackageAvailable, consent, strategies,
                 path, idx, findResult, callsLeft, changesLeft, projects, download,
                 downloadsLeft, releases, fs, tmpDir, version, location, tempBin, session,
                 copies, history>>

\* copyBinaryToTemporaryLocation, lines 144-160: probe the version and
\* compute the cache path
ProvisionProbe ==
  /\ pc = "provision"
  /\ LET v == getVersion(findResult.bin)
         probed == <<Event("getVersion", "provision", findResult.bin)>>
     IN /\ version' = v
        /\ location' = CachePath(v)
        /\ log' = log \o (IF v = NoVersion
                          THEN Append(probed, Event("showErrorMessage", "provision", <<"invalid-state">>))
                          ELSE probed)
  /\ pc' = "copy"
  /\ UNCHANGED <<afterFindFrame, fs, tmpDir, tempBin, session, copies, history>>

\* what the filesystem may refuse during one provisioning
CopyFailures == {"none", "createDirectory", "copyFile", "chmod"}

\* lines 162-203 without the fileExists check: the binary is always copied
copyToLocationAlways(f, dir, bin, loc, fail) ==
  LET mkdir == <<Event("createDirectory", "provision", <<globalStorageFolderTmp>>)>>
      copy == <<Event("copyFileSync", "provision", loc)>>
      warn == <<Event("warn", "provision", <<"error-copying">>)>>
      written == [f EXCEPT ![loc] = FileIn(f, bin)]
  IN IF fail = "createDirectory"
     THEN [fs |-> f, tmpDir |-> dir, copied |-> FALSE, returned |-> NoPath,
           failed |-> "createDirectory", events |-> mkdir \o warn]
     ELSE IF fail = "copyFile" \/ ~ExistsIn(f, bin)
     THEN [fs |-> f, tmpDir |-> TRUE, copied |-> FALSE, returned |-> NoPath,
           failed |-> "copyFile", events |-> mkdir \o copy \o warn]
     ELSE IF fail = "chmod"
     THEN [fs |-> written, tmpDir |-> TRUE, copied |-> TRUE, returned |-> NoPath,
           failed |-> "chmod",
           events |-> mkdir \o copy \o <<Event("chmodSync", "provision", loc)>> \o warn]
     ELSE [fs |-> [written EXCEPT ![loc].exec = TRUE], tmpDir |-> TRUE,
           copied |-> TRUE, returned |-> loc, failed |-> "none",
           events |-> mkdir \o copy \o <<Event("chmodSync", "provision", loc)>>]

\* copyBinaryToTemporaryLocation, lines 162-203: what it leaves behind and
\* returns when the filesystem fails at `fail`
copyToLocation(f, dir, bin, loc, fail) ==
  LET hit == ExistsIn(f, loc)
      mkdir == <<Event("createDirectory", "provision", <<globalStorageFolderTmp>>)>>
      copy == <<Event("copyFileSync", "provision", loc)>>
      warn == <<Event("warn", "provision", <<"error-copying">>)>>
      written == IF hit THEN f ELSE [f EXCEPT ![loc] = FileIn(f, bin)]
  IN IF fail = "createDirectory"
     THEN [fs |-> f, tmpDir |-> dir, copied |-> FALSE, returned |-> NoPath,
           failed |-> "createDirectory", events |-> mkdir \o warn]
     ELSE IF ~hit /\ (fail = "copyFile" \/ ~ExistsIn(f, bin))
     THEN [fs |-> f, tmpDir |-> TRUE, copied |-> FALSE, returned |-> NoPath,
           failed |-> "copyFile", events |-> mkdir \o copy \o warn]
     ELSE IF fail = "chmod"
     THEN [fs |-> written, tmpDir |-> TRUE, copied |-> ~hit, returned |-> NoPath,
           failed |-> "chmod",
           events |-> mkdir \o (IF hit THEN <<>> ELSE copy)
                      \o <<Event("chmodSync", "provision", loc)>> \o warn]
     ELSE [fs |-> [written EXCEPT ![loc].exec = TRUE], tmpDir |-> TRUE,
           copied |-> ~hit, returned |-> loc, failed |-> "none",
           events |-> mkdir \o (IF hit THEN <<>> ELSE copy)
                      \o <<Event("chmodSync", "provision", loc)>>]

ProvisionCopy ==
  /\ pc = "copy"
  /\ \E fail \in CopyFailures :
       LET bin == findResult.bin
           done == copyToLocation(fs, tmpDir, bin, location, fail)
       IN /\ fs' = done.fs
          /\ tmpDir' = done.tmpDir
          /\ tempBin' = done.returned
          /\ log' = log \o done.events
          /\ copies' = IF done.copied
                       THEN Append(copies, [from |-> Normalize(bin), to |-> location,
                                            bytes |-> FileIn(fs, bin).bytes])
                       ELSE copies
          /\ history' = Append(history, [original |-> Normalize(bin),
                                         bytes |-> FileIn(fs, bin).bytes,
                                         version |-> version,
                                         hit |-> fileExists(location),
                                         copied |-> done.copied,
                                         failed |-> done.failed,
                                         returned |-> done.returned])
  /\ pc' = "client"
  /\ UNCHANGED <<afterFindFrame, version, location, session>>

\* lines 109-118 with the client always launched on the original
CreateClientOnOriginal ==
  /\ pc = "client"
  /\ session' = [bin |-> findResult.bin, tempBin |-> tempBin,
                 binaryStrategyLabel |-> findResult.label, command |-> findResult.bin]
  /\ log' = Append(log, Event("createLanguageClient", "createSession", findResult.bin))
  /\ pc' = "idle"
  /\ UNCHANGED <<afterFindFrame, fs, tmpDir, version, location, tempBin, copies, history>>

\* lines 109-118: launch the client on the copy, or on the original
CreateClient ==
  /\ pc = "client"
  /\ LET command == IF tempBin # NoPath THEN tempBin ELSE findResult.bin IN
       /\ session' = [bin |-> findResult.bin, tempBin |-> tempBin,
                      binaryStrategyLabel |-> findResult.label, command |-> command]
       /\ log' = log \o (IF tempBin = NoPath
                         THEN <<Event("warn", "createSession", <<"using-original">>)>>
                         ELSE <<>>)
                     \o <<Event("createLanguageClient", "createSession", command)>>
  /\ pc' = "idle"
  /\ UNCHANGED <<afterFindFrame, fs, tmpDir, version, location, tempBin, copies, history>>

-----------------------------------------------------------------------------
(* The environment: an installer replaces or removes the binary that was    *)
(* found: before provisioning probes it, between the probe and the copy, or *)
(* between two createSession calls.                                         *)

Replacements == {NoFile, File(2, TRUE), File(3, TRUE), File(4, TRUE)}

ReplaceOriginal ==
  /\ findResult # NoResult
  /\ pc \in {"provision", "copy", "idle"}
  /\ changesLeft > 0
  /\ \E f \in Replacements :
       /\ f # FileIn(fs, findResult.bin)
       /\ fs' = [fs EXCEPT ![Normalize(findResult.bin)] = f]
  /\ changesLeft' = changesLeft - 1
  /\ UNCHANGED <<raceVars, operatingMode, config, pathEnv, nodePackageAvailable, consent, tmpDir, pc,
                 strategies, path, idx, findResult, version, location, tempBin,
                 session, log, copies, history, callsLeft, projects, download,
                 downloadsLeft, releases, notifyVars>>

-----------------------------------------------------------------------------
(* downloadPglt called on its own, as the download command does, while no   *)
(* session is being created                                                 *)

NoDownload ==
  [ran |-> FALSE, answer |-> [pick |-> NoPick, newName |-> FALSE, fetch |-> "ok", write |-> "ok"],
   outcome |-> "none", returned |-> NoPath, events |-> <<>>]

DownloadCommand ==
  /\ pc = "idle"
  /\ downloadsLeft > 0
  /\ \E a \in DownloadAnswers :
       LET got == downloadPglt(fs, a) IN
         /\ fs' = got.fs
         /\ download' = [ran |-> TRUE, answer |-> a, outcome |-> got.outcome,
                         returned |-> got.bin, events |-> got.events]
  /\ downloadsLeft' = downloadsLeft - 1
  /\ UNCHANGED <<raceVars, operatingMode, config, pathEnv, nodePackageAvailable, consent, tmpDir, pc,
                 strategies, path, idx, findResult, version, location, tempBin,
                 session, log, copies, history, callsLeft, changesLeft, projects,
                 releases, notifyVars>>

-----------------------------------------------------------------------------
(* The configuration listener at rest: the extension has started, no       *)
(* change event is pending.                                                *)

\* an event: whether it affects the "postgres-language-server" namespace
\* and whether it affects the "postgrestools" namespace
Change(n, o) == [pending |-> TRUE, new |-> n, old |-> o]
NoEvent == [pending |-> FALSE, new |-> FALSE, old |-> FALSE]

ListenerIdle ==
  /\ lifecycle = "started"
  /\ pendingEvent = NoEvent
  /\ edition = 0
  /\ sessionEdition = 0
  /\ configRead = TRUE
  /\ restarts = 0

-----------------------------------------------------------------------------
(* Initial states: the extension is idle, the cache is empty, and the       *)
(* machine is in one of six families of installations.                      *)

OperatingModes == {"single_root", "multi_root"}

Config(n, o) == [new |-> [bin |-> n], old |-> [bin |-> o]]

FsWith(present, file) == [p \in FsPaths |-> IF p \in present THEN file ELSE NoFile]

LocalBin == <<"usr", "local", "bin">>
UsrBin == <<"usr", "bin">>

\* one candidate per strategy, each present or absent
ChainFiles ==
  { <<"opt", "pgls">>,
    JoinPath(NodePackageDir("new"), <<newPlatformSpecificBinaryName>>),
    PnpManifest(ProjectRoot, "cjs"),
    PnpResolved("new"),
    JoinPath(LocalBin, <<newPlatformSpecificBinaryName>>),
    InstalledBinaryPath("new") }

InitChain ==
  /\ config = Config(Str(SettingsAbsolute), Unset)
  /\ pathEnv = <<LocalBin>>
  /\ nodePackageAvailable = TRUE
  /\ consent \in {DownloadAndInstall, "No"}
  /\ callsLeft = 1
  /\ changesLeft = 0
  /\ downloadsLeft = 0
  /\ releases = <<"2.0.0", "1.0.0">>
  /\ lastNotifiedOfUpdate = NeverNotified
  /\ fs \in {FsWith(present, File(1, TRUE)) : present \in SUBSET ChainFiles}

SettingsValues ==
  { Unset, Str(<<>>), Str(SettingsAbsolute), Str(SettingsDotRelative),
    Str(SettingsParentRelative), Str(SettingsBareRelative),
    Obj({<<platformIdentifier, SettingsDotRelative>>, <<"win32-x64", SettingsAbsolute>>}),
    Obj({<<"win32-x64", SettingsAbsolute>>}) }

InitSettings ==
  /\ config \in {Config(n, o) : n \in SettingsValues, o \in {Unset, Str(SettingsAbsolute)}}
  /\ pathEnv = <<>>
  /\ nodePackageAvailable = TRUE
  /\ consent = "No"
  /\ callsLeft = 1
  /\ changesLeft = 0
  /\ downloadsLeft = 0
  /\ releases = <<"2.0.0", "1.0.0">>
  /\ lastNotifiedOfUpdate = toISOString(LastInstant)
  /\ fs \in {FsWith(present, File(1, TRUE)) : present \in SUBSET SettingsTargets}

InitPath ==
  /\ config = Config(Unset, Unset)
  /\ pathEnv \in {<<>>, <<LocalBin>>, <<LocalBin, UsrBin>>, <<UsrBin, LocalBin>>}
  /\ nodePackageAvailable = TRUE
  /\ consent \in PromptAnswers \ {DownloadAndInstall}
  /\ callsLeft = 1
  /\ changesLeft = 0
  /\ downloadsLeft = 0
  /\ releases = <<"2.0.0", "1.0.0">>
  /\ lastNotifiedOfUpdate = toISOString(LastInstant)
  /\ fs \in {FsWith(present, File(1, TRUE)) : present \in SUBSET PathPaths}

\* one configured binary of any content, or packages without a build for
\* this platform
InitBinaries ==
  /\ config = Config(Str(SettingsAbsolute), Unset)
  /\ releases = <<"2.0.0", "1.0.0">>
  /\ lastNotifiedOfUpdate = toISOString(LastInstant)
  /\ pathEnv = <<>>
  /\ consent = "No"
  /\ \/ /\ nodePackageAvailable = TRUE
        /\ callsLeft = MaxCalls
        /\ changesLeft = MaxEnvChanges
        /\ downloadsLeft = 0
        /\ fs \in {FsWith({<<"opt", "pgls">>}, File(b, x)) : b \in 1..4, x \in BOOLEAN}
     \/ /\ nodePackageAvailable = FALSE
        /\ callsLeft = 1
        /\ changesLeft = 0
        /\ downloadsLeft = 0
        /\ fs \in {FsWith(present, File(1, TRUE)) :
                     present \in SUBSET (NodeModulesPaths \cup {PnpManifest(ProjectRoot, "js")})}

\* what earlier downloads left at the install paths: nothing, a binary, or
\* a file that is no binary (the body of an error response)
InstalledFiles == {NoFile, File(1, TRUE), File(4, TRUE)}

InitInstalled ==
  /\ config = Config(Unset, Unset)
  /\ pathEnv = <<>>
  /\ nodePackageAvailable = TRUE
  /\ consent = DownloadAndInstall
  /\ callsLeft = 1
  /\ changesLeft = 0
  /\ downloadsLeft = MaxDownloads
  /\ releases = <<"2.0.0", "1.0.0">>
  /\ lastNotifiedOfUpdate = toISOString(LastInstant)
  /\ fs \in {[FsWith({}, NoFile) EXCEPT ![InstalledBinaryPath("new")] = n,
                                         ![InstalledBinaryPath("old")] = o] :
               n \in InstalledFiles, o \in InstalledFiles}

\* the release lists: tags in newest-first order
Tags == {"1.0.0", "1.9.0", "2.0.0"}
Catalogs ==
  {c \in UNION {[1..n -> Tags] : n \in 1..3} :
     \A i, j \in DOMAIN c : i < j => SemverLt(c[j], c[i])}

\* one configured binary and any release list
InitReleases ==
  /\ config = Config(Str(SettingsAbsolute), Unset)
  /\ pathEnv = <<>>
  /\ nodePackageAvailable = TRUE
  /\ consent = "No"
  /\ callsLeft = 1
  /\ changesLeft = 0
  /\ downloadsLeft = 0
  /\ releases \in Catalogs
  /\ lastNotifiedOfUpdate \in {NeverNotified, toISOString(LastInstant)}
  /\ fs \in {FsWith({<<"opt", "pgls">>}, File(b, TRUE)) : b \in {1, 3, 5}}

\* a Plug'n'Play project: either manifest present or absent, nothing else
InitPnp ==
  /\ config = Config(Unset, Unset)
  /\ pathEnv = <<>>
  /\ nodePackageAvailable \in BOOLEAN
  /\ consent = "No"
  /\ callsLeft = 1
  /\ changesLeft = 0
  /\ downloadsLeft = 0
  /\ releases = <<"2.0.0", "1.0.0">>
  /\ lastNotifiedOfUpdate = toISOString(LastInstant)
  /\ fs \in {FsWith(present, File(1, TRUE)) : present \in SUBSET PnpManifests}

Init ==
  /\ operatingMode \in OperatingModes
  /\ provisions = <<>>
  /\ invocations = <<>>
  /\ activeSession = 0
  /\ clients = <<>>
  /\ ListenerIdle
  /\ now = LastInstant
  /\ notifiedAt = <<>>
  /\ \/ InitChain \/ InitSettings \/ InitPath \/ InitBinaries \/ InitInstalled
     \/ InitReleases \/ InitPnp
  /\ projects = <<>>
  /\ download = NoDownload
  /\ tmpDir = FALSE
  /\ pc = "idle"
  /\ strategies = <<>>
  /\ path = NoPath
  /\ idx = 1
  /\ findResult = NoResult
  /\ version = NoVersion
  /\ location = NoPath
  /\ tempBin = NoPath
  /\ session = NoSession
  /\ log = <<>>
  /\ copies = <<>>
  /\ history = <<>>

Next ==
  \/ CreateSession
  \/ TrySettings
  \/ TryNodeModules
  \/ TryYarnPnp
  \/ TryPath
  \/ TryDownload
  \/ ReportNotFound
  \/ CheckBinary
  \/ Notify
  \/ ProvisionProbe
  \/ ProvisionCopy
  \/ CreateClient
  \/ ReplaceOriginal
  \/ DownloadCommand

Spec == Init /\ [][Next]_vars

-----------------------------------------------------------------------------
(* Sessions created one after another while time passes: one configured    *)
(* binary, outdated or the newest, and a stored instant of the last update *)
(* check that is absent, recent or old.                                    *)

MaxSessions == 3

\* the clock advances between two calls; the time that passes during a
\* call is the time its awaits of lines 78 and 84 take
Tick ==
  /\ pc = "idle"
  /\ now < LastInstant
  /\ now' = now + 1
  /\ UNCHANGED <<raceVars, operatingMode, config, pathEnv, nodePackageAvailable, consent, fs,
                 tmpDir, pc, strategies, path, idx, findResult, version, location, tempBin,
                 session, log, copies, history, callsLeft, changesLeft, projects, download,
                 downloadsLeft, releases, lastNotifiedOfUpdate, notifiedAt>>

NotifyInit ==
  /\ operatingMode = "single_root"
  /\ provisions = <<>>
  /\ invocations = <<>>
  /\ activeSession = 0
  /\ clients = <<>>
  /\ ListenerIdle
  /\ config = Config(Str(SettingsAbsolute), Unset)
  /\ pathEnv = <<>>
  /\ nodePackageAvailable = TRUE
  /\ consent = "No"
  /\ fs \in {FsWith({<<"opt", "pgls">>}, File(b, TRUE)) : b \in {1, 3}}
  /\ tmpDir = FALSE
  /\ pc = "idle"
  /\ strategies = <<>>
  /\ path = NoPath
  /\ idx = 1
  /\ findResult = NoResult
  /\ version = NoVersion
  /\ location = NoPath
  /\ tempBin = NoPath
  /\ session = NoSession
  /\ log = <<>>
  /\ copies = <<>>
  /\ history = <<>>
  /\ callsLeft = MaxSessions
  /\ changesLeft = 0
  /\ projects = <<>>
  /\ download = NoDownload
  /\ downloadsLeft = 0
  /\ releases = <<"2.0.0", "1.0.0">>
  /\ now = FirstInstant
  /\ lastNotifiedOfUpdate \in {NeverNotified, toISOString(FirstInstant - 1),
                               toISOString(FirstInstant - daysToMs(3))}
  /\ notifiedAt = <<>>

NotifyNext ==
  \/ CreateSession
  \/ TrySettings
  \/ CheckBinary
  \/ Notify
  \/ ProvisionProbe
  \/ ProvisionCopy
  \/ CreateClient
  \/ Tick

SpecNotify == NotifyInit /\ [][NotifyNext]_vars

-----------------------------------------------------------------------------
(* createActiveSession invoked again before an earlier invocation has      *)
(* ended: the start and restart commands and the configuration listener    *)
(* call it without waiting for each other. An invocation runs from one     *)
(* await to the next in one step; createSession is one awaited call that   *)
(* returns a session, with its language client created, or nothing.        *)

MaxInvocations == 2
Invocations == 1..MaxInvocations

Bool(b) == [kind |-> "boolean", str |-> <<IF b THEN "true" ELSE "false">>, obj |-> {}]

\* !!value
Truthy(v) ==
  \/ v.kind = "boolean" /\ v.str = <<"true">>
  \/ v.kind = "string" /\ v.str # <<>>
  \/ v.kind = "object"

isEnabledForFolder == Truthy(getConfig("enabled"))

\* the state of createSession, which the concurrent runs leave alone
idleVars == <<pathEnv, nodePackageAvailable, consent, pc, strategies, path, idx,
              findResult, version, location, tempBin, session, log, copies, history,
              callsLeft, changesLeft, projects, download, downloadsLeft, releases,
              notifyVars>>

Idle ==
  /\ now = LastInstant
  /\ notifiedAt = <<>>
  /\ pathEnv = <<>>
  /\ nodePackageAvailable = TRUE
  /\ consent = "No"
  /\ pc = "idle"
  /\ strategies = <<>>
  /\ path = NoPath
  /\ idx = 1
  /\ findResult = NoResult
  /\ version = NoVersion
  /\ location = NoPath
  /\ tempBin = NoPath
  /\ session = NoSession
  /\ log = <<>>
  /\ copies = <<>>
  /\ history = <<>>
  /\ callsLeft = 0
  /\ changesLeft = 0
  /\ projects = <<>>
  /\ download = NoDownload
  /\ downloadsLeft = 0
  /\ releases = <<"2.0.0", "1.0.0">>
  /\ lastNotifiedOfUpdate = toISOString(LastInstant)

\* an invocation: where it is suspended, and whether the session it is
\* about to assign exists
At(p, m) == [pc |-> p, made |-> m]

sessionRaceFrame == <<operatingMode, config, fs, tmpDir, provisions, listenerVars, idleVars>>

\* lines 207-224, down to the first await
Invoke(i) ==
  /\ invocations[i].pc = "idle"
  /\ invocations' =
       [invocations EXCEPT ![i] =
          IF activeSession # 0 \/ operatingMode = "single_file" THEN At("returned", FALSE)
          ELSE IF operatingMode = "multi_root" /\ ~Truthy(getConfig("enabled"))
          THEN At("assign", FALSE)
          ELSE At("project", FALSE)]
  /\ UNCHANGED <<activeSession, clients, sessionRaceFrame>>

\* lines 248-261 and 274-282: the projects have come back
ProjectsFound(i) ==
  /\ invocations[i].pc = "project"
  /\ \E found \in BOOLEAN :
       invocations' =
         [invocations EXCEPT ![i] =
            IF ~found THEN At("assign", FALSE)
            ELSE IF operatingMode = "single_root" /\ ~isEnabledForFolder
            THEN At("assign", FALSE)
            ELSE At("session", FALSE)]
  /\ UNCHANGED <<activeSession, clients, sessionRaceFrame>>

\* lines 261 and 282: createSession has come back
SessionMade(i) ==
  /\ invocations[i].pc = "session"
  /\ \E made \in BOOLEAN :
       /\ invocations' = [invocations EXCEPT ![i] = At("assign", made)]
       /\ clients' = IF made THEN [clients EXCEPT ![i] = "created"] ELSE clients
  /\ UNCHANGED <<activeSession, sessionRaceFrame>>

\* lines 219-230: the assignment to state.activeSession and the call of
\* client.start()
Assign(i) ==
  /\ invocations[i].pc = "assign"
  /\ activeSession' = IF invocations[i].made THEN i ELSE 0
  /\ invocations' =
       [invocations EXCEPT ![i] =
          IF invocations[i].made THEN At("start", TRUE) ELSE At("returned", FALSE)]
  /\ UNCHANGED <<clients, sessionRaceFrame>>

\* lines 228-237: client.start() has settled
StartSettled(i) ==
  /\ invocations[i].pc = "start"
  /\ \E started \in BOOLEAN :
       IF started
       THEN /\ clients' = [clients EXCEPT ![i] = "started"]
            /\ activeSession' = activeSession
       ELSE /\ clients' = IF activeSession # 0
                          THEN [clients EXCEPT ![activeSession] = "disposed"]
                          ELSE clients
            /\ activeSession' = 0
  /\ invocations' = [invocations EXCEPT ![i] = At("returned", TRUE)]
  /\ UNCHANGED sessionRaceFrame

EnabledValues == {Unset, Bool(TRUE), Bool(FALSE)}

SessionsInit ==
  /\ Idle
  /\ operatingMode \in OperatingModes \cup {"single_file"}
  /\ config \in {[new |-> [bin |-> Unset, enabled |-> n],
                  old |-> [bin |-> Unset, enabled |-> o]] :
                   n \in EnabledValues, o \in EnabledValues}
  /\ fs = FsWith({}, NoFile)
  /\ tmpDir = FALSE
  /\ provisions = <<>>
  /\ ListenerIdle
  /\ invocations = [i \in Invocations |-> At("idle", FALSE)]
  /\ activeSession = 0
  /\ clients = [i \in Invocations |-> "none"]

SessionsNext ==
  \E i \in Invocations :
    \/ Invoke(i)
    \/ ProjectsFound(i)
    \/ SessionMade(i)
    \/ Assign(i)
    \/ StartSettled(i)

SpecSessions == SessionsInit /\ [][SessionsNext]_vars

-----------------------------------------------------------------------------
(* copyBinaryToTemporaryLocation called again before an earlier call has   *)
(* ended, in one editor process or in several that share the global        *)
(* storage. A call runs from one await to the next in one step. Inside one *)
(* process copyFileSync blocks every other call of that process; to        *)
(* another process the destination exists, not yet complete, while the     *)
(* copy is under way.                                                      *)

MaxProvisions == 2
Calls == 1..MaxProvisions
Processes == {1, 2}
Originals == {<<"opt", "pgls">>, <<"usr", "local", "bin", "postgres-language-server">>}

\* the bytes of a destination that copyFileSync has created and not yet
\* filled
PartlyWritten == 6

NotCalled(proc, bin) ==
  [proc |-> proc, bin |-> bin, pc |-> "idle", version |-> NoVersion, location |-> NoPath,
   hit |-> FALSE, returned |-> NoPath, seen |-> 0]

\* no other call of the same process is inside copyFileSync
Scheduled(c) ==
  \A d \in Calls \ {c} :
    provisions[d].proc = provisions[c].proc => provisions[d].pc # "copying"

provisionRaceFrame == <<operatingMode, config, invocations, activeSession, clients,
                        listenerVars, idleVars>>

\* line 144: the call, up to the awaited version probe
Provision(c) ==
  /\ provisions[c].pc = "idle"
  /\ Scheduled(c)
  /\ provisions' = [provisions EXCEPT ![c].pc = "probe"]
  /\ UNCHANGED <<fs, tmpDir, provisionRaceFrame>>

\* lines 144-165: the version has come back; the cache path, and the
\* awaited createDirectory
Probed(c) ==
  /\ provisions[c].pc = "probe"
  /\ Scheduled(c)
  /\ LET v == VersionIn(fs, provisions[c].bin) IN
       provisions' = [provisions EXCEPT ![c].pc = "mkdir", ![c].version = v,
                                        ![c].location = CachePath(v)]
  /\ UNCHANGED <<fs, tmpDir, provisionRaceFrame>>

\* lines 163-167: the directory is there; the awaited fileExists
DirectoryCreated(c) ==
  /\ provisions[c].pc = "mkdir"
  /\ Scheduled(c)
  /\ tmpDir' = TRUE
  /\ provisions' = [provisions EXCEPT ![c].pc = "exists"]
  /\ UNCHANGED <<fs, provisionRaceFrame>>

\* line 167: fileExists has looked at the cache path
ExistsAnswered(c) ==
  /\ provisions[c].pc = "exists"
  /\ provisions' = [provisions EXCEPT ![c].pc = "resume",
                                      ![c].hit = ExistsIn(fs, provisions[c].location)]
  /\ UNCHANGED <<fs, tmpDir, provisionRaceFrame>>

\* lines 167-200: the call goes on with the answer: on a hit chmodSync and
\* return, on a miss copyFileSync creates the destination
Resumed(c) ==
  /\ provisions[c].pc = "resume"
  /\ Scheduled(c)
  /\ LET loc == provisions[c].location IN
       IF provisions[c].hit
       THEN /\ fs' = [fs EXCEPT ![loc].exec = TRUE]
            /\ provisions' = [provisions EXCEPT ![c].pc = "returned", ![c].returned = loc,
                                                ![c].seen = fs[loc].bytes]
       ELSE /\ fs' = [fs EXCEPT ![loc] = File(PartlyWritten, FileIn(fs, provisions[c].bin).exec)]
            /\ provisions' = [provisions EXCEPT ![c].pc = "copying"]
  /\ UNCHANGED <<tmpDir, provisionRaceFrame>>

\* lines 172-200: copyFileSync has written the bytes; chmodSync and return
Copied(c) ==
  /\ provisions[c].pc = "copying"
  /\ LET loc == provisions[c].location
         bytes == FileIn(fs, provisions[c].bin).bytes
     IN /\ fs' = [fs EXCEPT ![loc] = File(bytes, TRUE)]
        /\ provisions' = [provisions EXCEPT ![c].pc = "returned", ![c].returned = loc,
                                            ![c].seen = bytes]
  /\ UNCHANGED <<tmpDir, provisionRaceFrame>>

\* binaries of one version with the same bytes at every original path, the
\* cache empty or already holding the copy
ProvisionsInit ==
  /\ Idle
  /\ operatingMode = "single_root"
  /\ config = Config(Str(SettingsAbsolute), Unset)
  /\ tmpDir \in BOOLEAN
  /\ \E b \in {1, 3}, cached \in BOOLEAN :
       fs = [p \in FsPaths |->
               IF p \in Originals THEN File(b, TRUE)
               ELSE IF cached /\ p = CachePath(VersionOfBytes(b)) THEN File(b, TRUE)
               ELSE NoFile]
  /\ provisions \in {[c \in Calls |-> NotCalled(procs[c], bins[c])] :
                       procs \in [Calls -> Processes], bins \in [Calls -> Originals]}
  /\ invocations = <<>>
  /\ activeSession = 0
  /\ clients = <<>>
  /\ ListenerIdle

ProvisionsNext ==
  \E c \in Calls :
    \/ Provision(c)
    \/ Probed(c)
    \/ DirectoryCreated(c)
    \/ ExistsAnswered(c)
    \/ Resumed(c)
    \/ Copied(c)

SpecProvisions == ProvisionsInit /\ [][ProvisionsNext]_vars

-----------------------------------------------------------------------------
(* The configuration listener. A change of the settings reaches the        *)
(* debounced handler as one event; the handler calls restart() or does     *)
(* nothing. A start or restart reads the settings while it creates the     *)
(* session (getConfig in createActiveSession and in the strategies) and    *)
(* ends some time later; state.state tells which of them is under way.     *)

MaxEditions == 2

affectsConfiguration(e, namespace) ==
  IF namespace = "postgres-language-server" THEN e.new ELSE e.old

listenerFrame == <<provisions, invocations, activeSession, clients, operatingMode, config, fs,
                   tmpDir, idleVars>>

\* workspace.onDidChangeConfiguration, lines 114-116: the settings have
\* changed and the event is handed to the handler
ConfigurationChanged(e) ==
  /\ ~pendingEvent.pending
  /\ (e.new \/ e.old) => edition < MaxEditions
  /\ pendingEvent' = e
  /\ edition' = IF e.new \/ e.old THEN edition + 1 ELSE edition
  /\ UNCHANGED <<lifecycle, sessionEdition, configRead, restarts, listenerFrame>>

\* lines 99-111: the handler
debouncedConfigurationChangeHandler ==
  /\ pendingEvent.pending
  /\ LET e == pendingEvent
         busy == lifecycle \in {"restarting", "stopping"}
         called == IF affectsConfiguration(e, "postgres-language-server")
                   THEN ~busy
                   ELSE IF affectsConfiguration(e, "postgrestools")
                   THEN ~busy
                   ELSE FALSE
     IN IF called
        THEN /\ lifecycle' = "restarting"
             /\ configRead' = FALSE
             /\ restarts' = restarts + 1
        ELSE UNCHANGED <<lifecycle, configRead, restarts>>
  /\ pendingEvent' = NoEvent
  /\ UNCHANGED <<edition, sessionEdition, listenerFrame>>

\* the start or restart under way reads the settings
ReadsConfiguration ==
  /\ lifecycle \in {"starting", "restarting"}
  /\ ~configRead
  /\ sessionEdition' = edition
  /\ configRead' = TRUE
  /\ UNCHANGED <<lifecycle, pendingEvent, edition, restarts, listenerFrame>>

\* the start or restart under way ends
Started ==
  /\ lifecycle \in {"starting", "restarting"}
  /\ configRead
  /\ lifecycle' = "started"
  /\ UNCHANGED <<pendingEvent, edition, sessionEdition, configRead, restarts, listenerFrame>>

\* lines 40-43 and 68-69: the stop and start commands
StopCommand ==
  /\ lifecycle = "started"
  /\ lifecycle' = "stopping"
  /\ UNCHANGED <<pendingEvent, edition, sessionEdition, configRead, restarts, listenerFrame>>

Stopped ==
  /\ lifecycle = "stopping"
  /\ lifecycle' = "stopped"
  /\ UNCHANGED <<pendingEvent, edition, sessionEdition, configRead, restarts, listenerFrame>>

StartCommand ==
  /\ lifecycle = "stopped"
  /\ lifecycle' = "starting"
  /\ configRead' = FALSE
  /\ UNCHANGED <<pendingEvent, edition, sessionEdition, restarts, listenerFrame>>

ListenerInit ==
  /\ Idle
  /\ operatingMode = "single_root"
  /\ config = Config(Unset, Unset)
  /\ fs = FsWith({}, NoFile)
  /\ tmpDir = FALSE
  /\ provisions = <<>>
  /\ invocations = <<>>
  /\ activeSession = 0
  /\ clients = <<>>
  /\ ListenerIdle

ListenerNext ==
  \/ \E n \in BOOLEAN, o \in BOOLEAN : ConfigurationChanged(Change(n, o))
  \/ debouncedConfigurationChangeHandler
  \/ ReadsConfiguration
  \/ Started
  \/ StopCommand
  \/ Stopped
  \/ StartCommand

\* the handler runs once its event is there; what has begun ends
SpecListener ==
  /\ ListenerInit
  /\ [][ListenerNext]_vars
  /\ WF_vars(debouncedConfigurationChangeHandler)
  /\ WF_vars(ReadsConfiguration)
  /\ WF_vars(Started)
  /\ WF_vars(Stopped)

-----------------------------------------------------------------------------
(* Reading the log *)

Positions(ev, kind) == {i \in 1..Len(log) : log[i].ev = ev /\ log[i].kind = kind}
Happened(ev, kind) == Positions(ev, kind) # {}
Count(ev, kind) == Cardinality(Positions(ev, kind))
Touched(kind) == \E i \in 1..Len(log) : log[i].kind = kind
ChainKinds == {"VsCodeSettings", "NPM", "Yarn", "Path", "Download"}
OnSuccessCount == Cardinality({i \in 1..Len(log) : log[i].ev = "onSuccess"})

\* attemptFind has returned in the current call
Returned == strategies # <<>> /\ pc # "find"

\* the place of the winning strategy in the list in use (0 if none)
WinnerIndex ==
  IF \E i \in 1..Len(strategies) : strategies[i].kind = findResult.kind
  THEN CHOOSE i \in 1..Len(strategies) : strategies[i].kind = findResult.kind
  ELSE 0

\* strategy i was invoked once and did not yield a binary
Failed(i) ==
  LET k == strategies[i].kind IN
    /\ Count("find", k) + Count("skip", k) = 1
    /\ Count("none", k) + Count("raised", k) + Count("skip", k) = 1
    /\ ~Happened("onSuccess", k)

-----------------------------------------------------------------------------
(* C1: once attemptFind has returned a result, it is the result of the     *)
(* first strategy of the list in use whose lookup yielded a binary, tagged *)
(* with that strategy's kind and label; that strategy's onSuccess fired    *)
(* exactly once with the returned path, every earlier strategy was invoked *)
(* once and yielded nothing, no later strategy was touched at all, and no  *)
(* other onSuccess fired. Right after the return, a Settings or PATH       *)
(* lookup that finds a binary is the one the result comes from.            *)
C1_FirstSuccessWins ==
  Returned =>
    /\ OnSuccessCount <= 1
    /\ findResult = NoResult => OnSuccessCount = 0
    /\ findResult # NoResult =>
         LET w == WinnerIndex IN
           /\ w # 0
           /\ findResult.label = strategies[w].label
           /\ Count("find", findResult.kind) = 1
           /\ Count("onSuccess", findResult.kind) = 1
           /\ \A i \in Positions("onSuccess", findResult.kind) : log[i].arg = findResult.bin
           /\ \A j \in 1..(w - 1) : Failed(j)
           /\ \A j \in (w + 1)..Len(strategies) : ~Touched(strategies[j].kind)
    /\ pc = "resolved" =>
         /\ vsCodeSettingsFind(path).outcome = "found" =>
              /\ findResult.kind = "VsCodeSettings"
              /\ findResult.bin = vsCodeSettingsFind(path).bin
         /\ findResult.kind = "Path" =>
              /\ pathEnvironmentVariableFind.outcome = "found"
              /\ findResult.bin = pathEnvironmentVariableFind.bin

\* a local resolution won by the fourth strategy, the fifth never invoked
C1_Witness ==
  /\ pc = "resolved"
  /\ Len(strategies) = 5
  /\ findResult.kind = "Path"
  /\ Count("onSuccess", "Path") = 1
  /\ Happened("raised", "NPM")
  /\ ~Touched("Download")

-----------------------------------------------------------------------------
(* C2: a strategy whose find raised is treated as not found: attemptFind   *)
(* throws nothing, the next strategy of the list is the next one invoked,  *)
(* and a later strategy that yields a binary produces the result.          *)
C2_RaiseIsNotFound ==
  /\ ~Happened("throw", "attemptFind")
  /\ \A i \in 1..Len(strategies) :
       Happened("raised", strategies[i].kind) =>
         /\ Failed(i)
         /\ i < Len(strategies) =>
              \/ pc = "find" /\ idx = i + 1
              \/ Count("find", strategies[i + 1].kind) = 1
         /\ i = Len(strategies) => pc # "find" /\ findResult = NoResult
         /\ \A j \in (i + 1)..Len(strategies) :
              Happened("onSuccess", strategies[j].kind) =>
                findResult.kind = strategies[j].kind

\* the node_modules lookup raised and Plug'n'Play then produced the result
C2_Witness ==
  /\ Returned
  /\ Happened("raised", "NPM")
  /\ findResult.kind = "Yarn"
  /\ Happened("onSuccess", "Yarn")

-----------------------------------------------------------------------------
(* C3: within one resolution the strategies are invoked in the order       *)
(* Settings, NPM, Yarn, Path, Download when a project root was handed      *)
(* over, and Settings, Path, Download otherwise; the n-th invocation is of *)
(* the n-th strategy, after the one before it yielded nothing or raised;   *)
(* so each is invoked at most once and none after Download.                *)
LocalOrder == <<"VsCodeSettings", "NPM", "Yarn", "Path", "Download">>
GlobalOrder == <<"VsCodeSettings", "Path", "Download">>
ExpectedOrder == IF path # NoPath THEN LocalOrder ELSE GlobalOrder
FindPositions == {p \in 1..Len(log) : log[p].ev = "find"}
Rank(p) == Cardinality({q \in FindPositions : q <= p})

C3_FixedOrder ==
  strategies # <<>> =>
    /\ [i \in 1..Len(strategies) |-> strategies[i].kind] = ExpectedOrder
    /\ \A p \in FindPositions :
         /\ Rank(p) <= Len(ExpectedOrder)
         /\ log[p].kind = ExpectedOrder[Rank(p)]
         /\ Rank(p) > 1 =>
              \E q \in 1..(p - 1) :
                /\ log[q].kind = ExpectedOrder[Rank(p) - 1]
                /\ log[q].ev \in {"none", "raised"}
    /\ \A k \in ChainKinds : Count("find", k) <= 1

\* all five strategies of the local list were invoked, Download the last
C3_Witness ==
  /\ Returned
  /\ path # NoPath
  /\ Cardinality(FindPositions) = 5
  /\ \A p \in FindPositions : Rank(p) = 5 => log[p].kind = "Download"

-----------------------------------------------------------------------------
(* C4: when every strategy of the list yielded nothing or raised,          *)
(* attemptFind returns empty, throws nothing and fires no onSuccess; the   *)
(* createSession call then shows the error message and ends with no        *)
(* session, no version probe, no provisioning and no language client.      *)
AllFailed == \A i \in 1..Len(strategies) : Failed(i)
ProvisionEvents == {"createDirectory", "copyFileSync", "chmodSync"}

C4_NothingFound ==
  /\ (Returned /\ AllFailed) =>
       /\ findResult = NoResult
       /\ OnSuccessCount = 0
       /\ ~Happened("throw", "attemptFind")
       /\ pc \in {"resolved", "idle"}
  /\ (Returned /\ findResult = NoResult /\ pc # "resolved") =>
       /\ pc = "idle"
       /\ Happened("showErrorMessage", "createSession")
       /\ session = NoSession
       /\ tempBin = NoPath
       /\ location = NoPath
       /\ \A i \in 1..Len(log) :
            log[i].ev \notin ProvisionEvents \cup {"getVersion", "createLanguageClient", "throw"}

\* a local resolution in which all five strategies failed, one by raising,
\* and the call has ended
C4_Witness ==
  /\ pc = "idle"
  /\ Len(strategies) = 5
  /\ AllFailed
  /\ Happened("raised", "Yarn")
  /\ Happened("showErrorMessage", "createSession")

-----------------------------------------------------------------------------
(* C5: when attemptFind returns a result, a file exists at the returned    *)
(* path, for every strategy.                                               *)
C5_ResultExists ==
  (pc = "resolved" /\ findResult # NoResult) => fileExists(findResult.bin)

-----------------------------------------------------------------------------
(* Reading the provisioning history *)

ExpectedCachePath(v) == <<"storage", "tmp-bin", "postgres-language-server-" \o v>>
CopiesTo(p) == {k \in 1..Len(copies) : copies[k].to = p}
SamePair(a, b) ==
  a.original = b.original /\ a.bytes = b.bytes /\ a.version = b.version

-----------------------------------------------------------------------------
(* C6: a provision call that finds a file at the cache path copies         *)
(* nothing and, the filesystem not failing, returns that path; of two      *)
(* calls for the same binary and version that both went through, the       *)
(* second copies nothing, both return the cache path of the version, and   *)
(* exactly one copy to that path was ever made.                            *)
C6_OneCopy ==
  /\ \A i \in 1..Len(history) :
       /\ history[i].hit => ~history[i].copied
       /\ (history[i].hit /\ history[i].failed = "none") =>
            history[i].returned = ExpectedCachePath(history[i].version)
  /\ \A i, j \in 1..Len(history) :
       (i < j /\ SamePair(history[i], history[j])
          /\ history[i].failed = "none" /\ history[j].failed = "none") =>
         /\ history[i].returned = ExpectedCachePath(history[i].version)
         /\ history[j].returned = history[i].returned
         /\ ~history[j].copied
         /\ Cardinality(CopiesTo(history[i].returned)) = 1

\* the same binary provisioned twice: one copy, the same path both times
C6_Witness ==
  /\ Len(history) = 2
  /\ SamePair(history[1], history[2])
  /\ history[1].copied /\ history[2].hit
  /\ history[1].returned # NoPath
  /\ history[2].returned = history[1].returned
  /\ Len(copies) = 1

-----------------------------------------------------------------------------
(* C7: a filesystem failure during provisioning throws nothing and makes   *)
(* provision return empty; the createSession call still ends with a        *)
(* session, whose client runs the original binary when provision returned  *)
(* empty and the cache path, which is not the original, when it returned   *)
(* one.                                                                    *)
Provisioned == pc \in {"client", "idle"} /\ Happened("createDirectory", "provision")
LastProvision == history[Len(history)]
ClientCommands == {log[i].arg : i \in Positions("createLanguageClient", "createSession")}

C7_FailureFallsBack ==
  /\ ~Happened("throw", "provision")
  /\ Provisioned =>
       /\ LastProvision.failed # "none" => tempBin = NoPath
       /\ LastProvision.failed = "none" => tempBin = ExpectedCachePath(LastProvision.version)
       /\ tempBin # NoPath => Normalize(tempBin) # Normalize(findResult.bin)
       /\ pc = "idle" =>
            /\ session # NoSession
            /\ session.bin = findResult.bin
            /\ ClientCommands = {IF tempBin = NoPath THEN findResult.bin ELSE tempBin}
            /\ session.command \in ClientCommands

\* the copy failed and the client was launched on the original
C7_Witness ==
  /\ pc = "idle"
  /\ Provisioned
  /\ LastProvision.failed = "copyFile"
  /\ session # NoSession
  /\ session.command = findResult.bin
  /\ ClientCommands = {findResult.bin}

-----------------------------------------------------------------------------
(* C8: when the version probe of provision yields no version, no cache     *)
(* path is computed, no directory is created, nothing is copied, no path   *)
(* is returned and no message is shown to the user.                        *)
C8_NoVersionStopsProvision ==
  (Happened("getVersion", "provision") /\ version = NoVersion) =>
    /\ location = NoPath
    /\ tempBin = NoPath
    /\ ~Happened("showErrorMessage", "provision")
    /\ \A i \in 1..Len(log) : log[i].ev \notin ProvisionEvents

-----------------------------------------------------------------------------
(* C9: no step removes a file of the cache or changes its bytes; the       *)
(* cache path depends on the version alone; every file of the cache holds  *)
(* the bytes of the first copy made to it, also after another binary of    *)
(* the same version was provisioned, which is given the same path.         *)
CacheKeepsBytes ==
  \A p \in CachePaths : fs[p].bytes # 0 => fs'[p].bytes = fs[p].bytes

FirstCopyTo(p) == CHOOSE k \in CopiesTo(p) : \A m \in CopiesTo(p) : k <= m

-----------------------------------------------------------------------------
(* C10: in a single-root workspace whose root is known, with the setting   *)
(* a relative path, the settings strategy examines root/relative and       *)
(* nothing else, and succeeds with that location exactly when a file       *)
(* exists there.                                                           *)
ConfiguredRelative ==
  /\ getConfig("bin").kind = "string"
  /\ getConfig("bin").str # <<>>
  /\ Head(getConfig("bin").str) # ""

UnderRoot == Normalize(ProjectRoot \o getConfig("bin").str)

C10_RelativeUnderRoot ==
  (/\ operatingMode = "single_root"
   /\ path = ProjectRoot
   /\ ConfiguredRelative
   /\ pc \in {"find", "resolved"}
   /\ Happened("find", "VsCodeSettings")) =>
    /\ {log[i].arg : i \in Positions("examine", "VsCodeSettings")} = {UnderRoot}
    /\ Happened("onSuccess", "VsCodeSettings") <=> ExistsIn(fs, UnderRoot)
    /\ Happened("onSuccess", "VsCodeSettings") => findResult.bin = UnderRoot

-----------------------------------------------------------------------------
(* C11: with the setting a relative path and no project root handed to     *)
(* the strategy chain, the settings strategy shows an error message to     *)
(* the user and yields nothing: it examines no location, returns no path   *)
(* and does not raise.                                                     *)
C11_RelativeWithoutRoot ==
  (/\ path = NoPath
   /\ ConfiguredRelative
   /\ pc \in {"find", "resolved"}
   /\ Happened("find", "VsCodeSettings")) =>
    /\ Happened("showErrorMessage", "VsCodeSettings")
    /\ Happened("none", "VsCodeSettings")
    /\ ~Happened("examine", "VsCodeSettings")
    /\ ~Happened("onSuccess", "VsCodeSettings")
    /\ ~Happened("raised", "VsCodeSettings")

-----------------------------------------------------------------------------
(* C12: in a local resolution in which Settings, NPM, Yarn or Path yields  *)
(* a binary, the download strategy does nothing at all: no check for an    *)
(* earlier download, no prompt, no picker, no fetch. With the setting      *)
(* unset, no installed package, no Plug'n'Play manifest and a binary of    *)
(* either name in a directory of PATH, the result is a binary of PATH      *)
(* that exists, of kind Path.                                              *)
LocalRun == Len(strategies) = 5
EarlierKinds == {"VsCodeSettings", "NPM", "Yarn", "Path"}
OnPath ==
  {Normalize(pathEnv[i] \o <<n>>) :
     i \in 1..Len(pathEnv), n \in {"postgres-language-server", "postgrestools"}}
OnlyPathHasBinary ==
  /\ getConfig("bin").kind = "unset"
  /\ \A p \in NodeModulesPaths \cup PnpManifests : ~ExistsIn(fs, p)
  /\ \E p \in OnPath : ExistsIn(fs, p)

C12_DownloadNotReached ==
  /\ (LocalRun /\ \E k \in EarlierKinds : Happened("onSuccess", k)) =>
       ~Touched("Download")
  /\ (LocalRun /\ pc = "resolved" /\ OnlyPathHasBinary) =>
       /\ findResult.kind = "Path"
       /\ findResult.bin \in OnPath
       /\ ExistsIn(fs, findResult.bin)
       /\ ~Touched("Download")

\* the scenario: nothing but /usr/local/bin/postgres-language-server
C12_Witness ==
  /\ LocalRun
  /\ pc = "resolved"
  /\ OnlyPathHasBinary
  /\ Happened("none", "VsCodeSettings")
  /\ Happened("find", "NPM")
  /\ Happened("none", "Yarn")
  /\ findResult.kind = "Path"
  /\ findResult.bin = <<"usr", "local", "bin", "postgres-language-server">>

-----------------------------------------------------------------------------
(* C13: a global resolution that reaches the download strategy with the    *)
(* setting unset, no binary on PATH and none downloaded before, and a user *)
(* who answers the prompt with anything but "Download and install", ends   *)
(* with no result and no error; the step shows the prompt and nothing      *)
(* else: no picker, no request, and the files are as they were.            *)
GlobalRun == Len(strategies) = 3
NetworkEvents == {"showQuickPick", "hasNewName", "fetch", "writeFile"}
NothingInstalled ==
  /\ getConfig("bin").kind = "unset"
  /\ \A p \in OnPath \cup InstallPaths : ~ExistsIn(fs, p)

DeclinedDownload ==
  (/\ GlobalRun
   /\ AtStrategy("downloadPgltStrategy")
   /\ NothingInstalled
   /\ consent # "Download and install") =>
    /\ pc' = "resolved"
    /\ findResult' = NoResult
    /\ fs' = fs
    /\ log' = log \o <<[kind |-> "Download", ev |-> "find", arg |-> <<>>],
                       [kind |-> "Download", ev |-> "showInformationMessage",
                        arg |-> <<"consent-prompt">>],
                       [kind |-> "Download", ev |-> "none", arg |-> <<>>]>>

C13_NoConsentNoDownload == [][DeclinedDownload]_vars

\* the prompt was dismissed and the resolution ended empty
C13_Witness ==
  /\ GlobalRun
  /\ pc = "resolved"
  /\ NothingInstalled
  /\ consent = "dismissed"
  /\ Happened("showInformationMessage", "Download")
  /\ Happened("none", "Download")
  /\ findResult = NoResult

-----------------------------------------------------------------------------
(* Reading one step of the download strategy *)

DownloadStep == AtStrategy("downloadPgltStrategy")
NewEvents == {log'[i].ev : i \in (Len(log) + 1)..Len(log')}
AskingEvents ==
  {"showInformationMessage", "showQuickPick", "hasNewName", "fetch", "writeFile"}
InstalledNew == <<"storage", "global-bin", "postgres-language-server">>
InstalledOld == <<"storage", "global-bin", "postgrestools">>
IsBinary(p) == ExistsIn(fs, p) /\ VersionIn(fs, p) # NoVersion

-----------------------------------------------------------------------------
(* C14, as stated: when the download strategy runs and a binary is at the  *)
(* install path under the current or the legacy name, the strategy         *)
(* returns it (the current name first) and asks and fetches nothing.       *)
InstalledBinaryWins ==
  (DownloadStep /\ (IsBinary(InstalledNew) \/ IsBinary(InstalledOld))) =>
    /\ findResult'.bin = IF IsBinary(InstalledNew) THEN InstalledNew ELSE InstalledOld
    /\ NewEvents \cap AskingEvents = {}

FirstInstalled == IF ExistsIn(fs, InstalledNew) THEN InstalledNew ELSE InstalledOld

FirstInstalledDecides ==
  (DownloadStep /\ ExistsIn(fs, FirstInstalled)) =>
    /\ pc' = "resolved"
    /\ fs' = fs
    /\ NewEvents \cap AskingEvents = {}
    /\ IF VersionIn(fs, FirstInstalled) # NoVersion
       THEN /\ findResult'.bin = FirstInstalled
            /\ findResult'.kind = "Download"
            /\ "onSuccess" \in NewEvents
       ELSE /\ findResult' = NoResult
            /\ "raised" \in NewEvents

-----------------------------------------------------------------------------
(* C15: when the fetch of the release asset fails with a network error,    *)
(* the user is shown an error naming the version and the asset URL, no     *)
(* file is written and every file, one already at the install path         *)
(* included, is as it was before.                                          *)
FetchFailed(a) == a.pick # NoPick /\ a.fetch = "network-error"
FailureMessage(a) ==
  [kind |-> "Download", ev |-> "showErrorMessage",
   arg |-> <<"download-failed", a.pick, IF a.newName THEN "new-asset" ELSE "old-asset">>]
EventsOf(evs) == {evs[i] : i \in 1..Len(evs)}
NewLog == {log'[i] : i \in (Len(log) + 1)..Len(log')}

NetworkErrorWritesNothing ==
  /\ (downloadsLeft' # downloadsLeft /\ FetchFailed(download'.answer)) =>
       /\ fs' = fs
       /\ FailureMessage(download'.answer) \in EventsOf(download'.events)
       /\ \A e \in EventsOf(download'.events) :
            e.ev \notin {"writeFile", "showInformationMessage"}
  /\ (DownloadStep /\ \E e \in NewLog : e.ev = "showErrorMessage" /\ e.arg[1] = "download-failed") =>
       /\ fs' = fs
       /\ "writeFile" \notin NewEvents

C15_NetworkErrorWritesNothing == [][NetworkErrorWritesNothing]_vars

\* a download over an installed binary broke off and the binary is intact
C15_Witness ==
  /\ download.ran
  /\ FetchFailed(download.answer)
  /\ download.answer.newName
  /\ fs[InstalledNew] = [bytes |-> 1, exec |-> TRUE]
  /\ FailureMessage(download.answer) \in EventsOf(download.events)

-----------------------------------------------------------------------------
(* C16: a call of downloadPglt in which a version was picked returns the   *)
(* path it wrote the asset to when the fetch and the write succeeded, and  *)
(* returns nothing when the fetch was rejected or the write failed,        *)
(* whatever was at the install paths before.                               *)
WrittenPath(a) == IF a.newName THEN InstalledNew ELSE InstalledOld

C16_ReturnsWhatItWrote ==
  (download.ran /\ download.answer.pick # NoPick) =>
    /\ (download.answer.fetch = "ok" /\ download.answer.write = "ok") =>
         /\ download.outcome = "found"
         /\ download.returned = WrittenPath(download.answer)
    /\ (download.answer.fetch = "network-error" \/ download.answer.write # "ok") =>
         /\ download.outcome = "none"
         /\ download.returned = NoPath

-----------------------------------------------------------------------------
(* C17: with a release list in newest-first order, latestVersion is its    *)
(* first element; versionOutdated is false of the newest tag and true of   *)
(* every older one; and createSession, when a notification is due, shows   *)
(* none for an installed version that is the newest tag and one for an     *)
(* older version, naming the newest tag when it names a version.           *)
TagRank(t) == IF t = "1.0.0" THEN 1 ELSE IF t = "1.9.0" THEN 2 ELSE 3
Older(v, w) == TagRank(v) < TagRank(w)
NewestFirst == \A i, j \in DOMAIN releases : i < j => Older(releases[j], releases[i])

CatalogAnswers ==
  (releases # <<>> /\ NewestFirst) =>
    /\ latestVersion = Head(releases)
    /\ \A t \in DOMAIN releases : ~Older(latestVersion, releases[t])
    /\ ~versionOutdated(Head(releases))
    /\ \A v \in {"1.0.0", "1.9.0", "2.0.0"} : Older(v, Head(releases)) => versionOutdated(v)

UpdateMessages ==
  {e \in NewLog : e.kind = "createSession" /\ e.ev = "showInformationMessage"
                  /\ e.arg[1] # "no-multi-root-support"}

NotifyFollowsCatalog ==
  (pc = "notify" /\ notifyDue /\ releases # <<>>) =>
    /\ version = Head(releases) => UpdateMessages = {}
    /\ Older(version, Head(releases)) => UpdateMessages # {}
    /\ \A e \in UpdateMessages :
         e.arg[1] = "update-available" => e.arg = <<"update-available", version, Head(releases)>>

-----------------------------------------------------------------------------
(* C18: createSession resolves with the local list of five strategies,     *)
(* rooted at the first project, exactly when the operating mode is         *)
(* single-root and a project was handed over; otherwise it resolves with   *)
(* the global list of three, without a root, and the NPM and Yarn          *)
(* strategies are not invoked.                                             *)
KindsInUse == [i \in 1..Len(strategies) |-> strategies[i].kind]
SingleRootKnown == operatingMode = "single_root" /\ projects # <<>>

C18_LocalIffSingleRoot ==
  strategies # <<>> =>
    IF SingleRootKnown
    THEN /\ KindsInUse = <<"VsCodeSettings", "NPM", "Yarn", "Path", "Download">>
         /\ path = projects[1]
    ELSE /\ KindsInUse = <<"VsCodeSettings", "Path", "Download">>
         /\ path = NoPath
         /\ ~Touched("NPM")
         /\ ~Touched("Yarn")

\* a multi-root workspace with one project resolved globally, down to PATH
C18_Witness ==
  /\ operatingMode = "multi_root"
  /\ Len(projects) = 1
  /\ KindsInUse = <<"VsCodeSettings", "Path", "Download">>
  /\ pc = "resolved"
  /\ Happened("none", "VsCodeSettings")
  /\ Happened("find", "Path")

-----------------------------------------------------------------------------
(* C19: for each of the five strategy kinds the migration message          *)
(* functions return a message and do not raise: the package message for    *)
(* NPM and Yarn, the binary message for VsCodeSettings, Path and           *)
(* Download. Every result of a resolution has one of the five kinds, the   *)
(* message createSession shows for it is the one of its kind, and          *)
(* "Unreachable" is never thrown.                                          *)
PackageKinds == {"NPM", "Yarn"}
BinaryKinds == {"VsCodeSettings", "Path", "Download"}
RenamingShown ==
  {log[i].arg : i \in {j \in Positions("showInformationMessage", "createSession") :
                         log[j].arg[1] \notin {"update-available", "no-multi-root-support"}}}

C19_MessageIsTotal ==
  /\ \A k \in PackageKinds :
       /\ updateAndRenamingMessageForKind(k) =
            [raised |-> FALSE, message |-> "use-the-new-package"]
       /\ renamingMessageForKind(k) =
            [raised |-> FALSE, message |-> "warning-use-the-new-package"]
  /\ \A k \in BinaryKinds :
       /\ updateAndRenamingMessageForKind(k) =
            [raised |-> FALSE, message |-> "get-the-binary-from-the-new-name"]
       /\ renamingMessageForKind(k) =
            [raised |-> FALSE, message |-> "warning-use-a-binary-from-the-new-package"]
  /\ findResult # NoResult => findResult.kind \in PackageKinds \cup BinaryKinds
  /\ \A i \in 1..Len(log) : log[i].arg # <<"Unreachable">>
  /\ RenamingShown \subseteq
       {IF findResult.kind \in PackageKinds THEN <<"use-the-new-package">>
        ELSE <<"get-the-binary-from-the-new-name">>}

\* a downloaded binary is outdated and its user is told about the new name
C19_Witness ==
  /\ findResult.kind = "Download"
  /\ RenamingShown = {<<"get-the-binary-from-the-new-name">>}
  /\ pc = "provision"

-----------------------------------------------------------------------------
(* C20: when the binary that was found is not an executable file,          *)
(* createSession shows an error and ends without a session, without a      *)
(* copy and without a client; createSession goes past its check only with  *)
(* a binary that exists and is executable; and every client is launched    *)
(* on the binary that was found or on the copy provisioned from it.        *)
FoundIsExecutable ==
  ExistsIn(fs, findResult.bin) /\ FileIn(fs, findResult.bin).exec

CheckStops ==
  /\ (pc = "resolved" /\ findResult # NoResult /\ ~FoundIsExecutable) =>
       /\ pc' = "idle"
       /\ session' = NoSession
       /\ NewLog = {[kind |-> "createSession", ev |-> "showErrorMessage",
                     arg |-> <<"not-executable">>]}
       /\ fs' = fs /\ copies' = copies /\ history' = history /\ tempBin' = NoPath
  /\ (pc = "resolved" /\ pc' # "idle") => FoundIsExecutable

ClientOnCheckedBinary ==
  /\ Happened("showErrorMessage", "createSession") =>
       /\ session = NoSession
       /\ ClientCommands = {}
       /\ \A i \in 1..Len(log) : log[i].ev \notin ProvisionEvents
  /\ \A c \in ClientCommands :
       /\ findResult # NoResult
       /\ Happened("getVersion", "createSession")
       /\ c = IF tempBin = NoPath THEN findResult.bin ELSE location
       /\ tempBin # NoPath =>
            \E k \in 1..Len(history) :
              history[k].original = findResult.bin /\ history[k].returned = c

C20_OnlyCheckedBinariesRun == [](ClientOnCheckedBinary) /\ [][CheckStops]_vars

\* a file without the executable bit was found: an error and no session
C20_Witness ==
  /\ pc = "idle"
  /\ findResult # NoResult
  /\ ExistsIn(fs, findResult.bin)
  /\ ~FileIn(fs, findResult.bin).exec
  /\ \E i \in 1..Len(log) : log[i].arg = <<"not-executable">>
  /\ session = NoSession
  /\ copies = <<>>

-----------------------------------------------------------------------------
(* C21: the PATH strategy returns a file of the earliest directory of the  *)
(* search path that holds a binary under either name, the current name     *)
(* before the legacy one within that directory, so that a legacy binary of *)
(* an earlier directory wins over a current one of a later directory; it   *)
(* yields nothing, without raising, when the variable is unset or no       *)
(* directory holds either name.                                            *)
PathStep == AtStrategy("pathEnvironmentVariableStrategy")
HoldsBinary(i) ==
  \/ ExistsIn(fs, pathEnv[i] \o <<"postgres-language-server">>)
  \/ ExistsIn(fs, pathEnv[i] \o <<"postgrestools">>)
DirsWithBinary == {i \in 1..Len(pathEnv) : HoldsBinary(i)}
EarliestDir == CHOOSE i \in DirsWithBinary : \A j \in DirsWithBinary : i <= j
ExpectedOnPath ==
  IF ExistsIn(fs, pathEnv[EarliestDir] \o <<"postgres-language-server">>)
  THEN pathEnv[EarliestDir] \o <<"postgres-language-server">>
  ELSE pathEnv[EarliestDir] \o <<"postgrestools">>

PathLookupInOrder ==
  PathStep =>
    /\ "raised" \notin NewEvents
    /\ fs' = fs
    /\ IF DirsWithBinary = {}
       THEN /\ findResult' = NoResult
            /\ "none" \in NewEvents
            /\ "onSuccess" \notin NewEvents
       ELSE /\ findResult'.kind = "Path"
            /\ findResult'.bin = ExpectedOnPath
            /\ ExistsIn(fs, findResult'.bin)
            /\ pc' = "resolved"

C21_PathLookupInOrder == [][PathLookupInOrder]_vars

\* a legacy binary in the first directory won over a current one in the
\* second
C21_Witness ==
  /\ pc = "resolved"
  /\ pathEnv = <<<<"usr", "bin">>, <<"usr", "local", "bin">>>>
  /\ ~ExistsIn(fs, <<"usr", "bin", "postgres-language-server">>)
  /\ ExistsIn(fs, <<"usr", "bin", "postgrestools">>)
  /\ ExistsIn(fs, <<"usr", "local", "bin", "postgres-language-server">>)
  /\ findResult.kind = "Path"
  /\ findResult.bin = <<"usr", "bin", "postgrestools">>

-----------------------------------------------------------------------------
(* Reading one step of a package-manager strategy *)

NewPositions == (Len(log) + 1)..Len(log')
Asked(kind, ev, arg) ==
  \E i \in NewPositions : log'[i].kind = kind /\ log'[i].ev = ev /\ log'[i].arg = arg
NodeBinary(id) ==
  IF id = "new"
  THEN <<"proj", "node_modules", "@postgres-language-server", "cli-linux",
         "postgres-language-server">>
  ELSE <<"proj", "node_modules", "@postgrestools", "cli-linux", "postgrestools">>

-----------------------------------------------------------------------------
(* C22: the node_modules strategy, given a project root, resolves the      *)
(* current package first; when the current package is not installed, its   *)
(* platform-specific package is absent or its binary file is missing, the  *)
(* strategy goes on to resolve the legacy package; and an absent           *)
(* platform-specific package never makes the strategy raise: the step      *)
(* ends with the legacy binary or with nothing.                            *)
NpmStep == AtStrategy("nodeModulesStrategy") /\ path # NoPath
NpmResolved(id) == \E m \in {"missing", "error", "ok"} : Asked("NPM", "resolve", <<id, m>>)
NotInstalled(id) == Asked("NPM", "resolve", <<id, "missing">>)
SubPackageAbsent(id) ==
  /\ Asked("NPM", "resolve", <<id, "ok">>)
  /\ ~nodePackageAvailable \/ Asked("NPM", "resolveNested", <<id, "throws">>)
BinaryMissing(id) ==
  /\ Asked("NPM", "resolveNested", <<id, "ok">>)
  /\ ~ExistsIn(fs, NodeBinary(id))

CurrentThenLegacy ==
  NpmStep =>
    /\ NpmResolved("new")
    /\ \A i \in NewPositions :
         (log'[i].ev = "resolve" /\ log'[i].arg[1] = "old") =>
           \E j \in NewPositions :
             j < i /\ log'[j].ev = "resolve" /\ log'[j].arg[1] = "new"
    /\ (NotInstalled("new") \/ SubPackageAbsent("new") \/ BinaryMissing("new")) =>
         NpmResolved("old")
    /\ (SubPackageAbsent("new") \/ SubPackageAbsent("old")) =>
         /\ "raised" \notin NewEvents
         /\ \/ findResult' = NoResult /\ "none" \in NewEvents
            \/ findResult'.bin = NodeBinary("old")

C22_CurrentThenLegacy == [][CurrentThenLegacy]_vars

-----------------------------------------------------------------------------
(* C23: in the Plug'n'Play strategy a resolution request that fails is     *)
(* not fatal: after a failed request for the current package the legacy    *)
(* package is requested from the same manifest, and after a failed request *)
(* for the legacy package the next manifest that exists is loaded; the     *)
(* strategy returns the path of the first request that resolved, every     *)
(* request before it having failed; and when the manifests load and no     *)
(* request resolves, the strategy yields nothing and does not raise.       *)
YarnStep == AtStrategy("yarnPnpStrategy") /\ path # NoPath
RequestAt(i) == log'[i].kind = "Yarn" /\ log'[i].ev = "resolveRequest"
FailedAt(i) == RequestAt(i) /\ log'[i].arg[3] = "throws"
ResolvedAt(i) == RequestAt(i) /\ log'[i].arg[3] = "ok"
LoadFailed == \E e \in {"cjs", "js"} : Asked("Yarn", "require", <<e, "throws">>)
ResolvedPath(id) ==
  IF id = "new"
  THEN <<"proj", ".yarn", "cache", "pgls.zip", "postgres-language-server">>
  ELSE <<"proj", ".yarn", "cache", "pgt.zip", "postgrestools">>

FailedRequestIsNotFatal ==
  YarnStep =>
    /\ \A i \in NewPositions :
         FailedAt(i) =>
           /\ log'[i + 1].ev # "raised" \/ LoadFailed
           /\ log'[i].arg[2] = "new" =>
                /\ RequestAt(i + 1)
                /\ log'[i + 1].arg[1] = log'[i].arg[1]
                /\ log'[i + 1].arg[2] = "old"
           /\ (log'[i].arg[2] = "old" /\ log'[i].arg[1] = "cjs"
                 /\ ExistsIn(fs, <<"proj", ".pnp.js">>)) =>
                log'[i + 1].ev = "require" /\ log'[i + 1].arg[1] = "js"
    /\ \A i \in NewPositions :
         ResolvedAt(i) =>
           /\ findResult'.kind = "Yarn"
           /\ findResult'.bin = ResolvedPath(log'[i].arg[2])
           /\ \A j \in NewPositions : (j < i /\ RequestAt(j)) => FailedAt(j)
           /\ \A j \in NewPositions : j > i => ~RequestAt(j)
    /\ "raised" \in NewEvents => LoadFailed
    /\ (~LoadFailed /\ ~\E i \in NewPositions : ResolvedAt(i)) =>
         /\ findResult' = NoResult
         /\ "none" \in NewEvents
         /\ pc' = "find"

-----------------------------------------------------------------------------
(* C24: in a resolution, every fetch of an asset and every write to the    *)
(* install path comes after the consent prompt, answered with "Download    *)
(* and install", and after the version picker, in which the tag that is    *)
(* fetched was selected, in this order; and when the picker is dismissed,  *)
(* in a resolution or in a call of downloadPglt on its own, the download   *)
(* returns empty with no name probe, no fetch and no write.                *)
PromptAt(i) ==
  log'[i] = [kind |-> "Download", ev |-> "showInformationMessage", arg |-> <<"consent-prompt">>]
PickerAt(i) == log'[i].kind = "Download" /\ log'[i].ev = "showQuickPick"
TransferAt(i) == log'[i].kind = "Download" /\ log'[i].ev \in {"fetch", "writeFile"}
TransferEvents == {"hasNewName", "fetch", "writeFile"}

ConsentThenPickThenFetch ==
  /\ DownloadStep =>
       /\ fs' # fs => "writeFile" \in NewEvents
       /\ \A k \in NewPositions :
            TransferAt(k) =>
              /\ consent = "Download and install"
              /\ \E p, q \in NewPositions :
                   /\ p < q /\ q < k
                   /\ PromptAt(p)
                   /\ PickerAt(q)
                   /\ log'[q].arg[1] \in {"1.0.0", "2.0.0"}
                   /\ log'[k].ev = "fetch" => log'[k].arg[1] = log'[q].arg[1]
       /\ \A q \in NewPositions :
            (PickerAt(q) /\ log'[q].arg[1] = "none") =>
              /\ findResult' = NoResult
              /\ "none" \in NewEvents
              /\ NewEvents \cap TransferEvents = {}
              /\ fs' = fs
  /\ (downloadsLeft' # downloadsLeft /\ download'.answer.pick = "none") =>
       /\ download'.outcome = "none"
       /\ download'.returned = NoPath
       /\ {e.ev : e \in EventsOf(download'.events)} = {"showQuickPick"}
       /\ fs' = fs

-----------------------------------------------------------------------------
(* C25: a download writes to the install path only the bytes of the        *)
(* release asset it fetched; an attempt that does not obtain the asset,    *)
(* by a transport failure or by a response with an error status, shows     *)
(* the user an error naming the version and the URL and leaves the         *)
(* install path as it was.                                                 *)
ReleaseAssets == {1, 3}
AssetNotObtained(a) == a.pick # NoPick /\ a.fetch \in {"network-error", "http-error"}

OnlyFetchedAssetsInstalled ==
  /\ (DownloadStep \/ downloadsLeft' # downloadsLeft) =>
       \A p \in {InstalledNew, InstalledOld} :
         fs'[p] # fs[p] => fs'[p].bytes \in ReleaseAssets
  /\ (downloadsLeft' # downloadsLeft /\ AssetNotObtained(download'.answer)) =>
       /\ FailureMessage(download'.answer) \in EventsOf(download'.events)
       /\ fs' = fs

C25_OnlyFetchedAssetsInstalled == [][OnlyFetchedAssetsInstalled]_vars

-----------------------------------------------------------------------------
(* C26: when the first file at the install path yields no version, the     *)
(* error of the downloaded-binary lookup reaches the caller: a resolution  *)
(* that gets to the download strategy ends with that error thrown, not     *)
(* with "nothing found", and a call of downloadPglt ends with it, not      *)
(* with a picker that shows no installed version.                          *)
VersionlessInstalled ==
  ExistsIn(fs, FirstInstalled) /\ VersionIn(fs, FirstInstalled) = NoVersion

ViolationReachesCaller ==
  /\ (DownloadStep /\ VersionlessInstalled) =>
       /\ "throw" \in NewEvents
       /\ "none" \notin NewEvents
       /\ pc' = "idle"
  /\ (downloadsLeft' # downloadsLeft /\ VersionlessInstalled) =>
       /\ download'.outcome = "raised"
       /\ \A e \in EventsOf(download'.events) : e.ev # "showQuickPick"

C26_ViolationReachesCaller == [][ViolationReachesCaller]_vars

-----------------------------------------------------------------------------
(* C28: a provisioning that copies the original into the cache sets the    *)
(* executable permission on the path of the original, and no step of       *)
(* provisioning changes the bytes of the original.                         *)
ProvisionStep == pc \in {"provision", "copy"} /\ pc' # pc
CopyMade == pc = "copy" /\ Len(copies') = Len(copies) + 1
Original == Normalize(findResult.bin)

ChmodOnOriginal ==
  /\ ProvisionStep => fs'[Original].bytes = fs[Original].bytes
  /\ CopyMade =>
       \E i \in NewPositions :
         log'[i].kind = "provision" /\ log'[i].ev = "chmodSync" /\ log'[i].arg = Original

C28_ChmodOnOriginal == [][ChmodOnOriginal]_vars

-----------------------------------------------------------------------------
(* C29: for every key getConfig returns the value of the namespace         *)
(* postgres-language-server when one is set there and the value of the     *)
(* namespace postgrestools otherwise, a boolean included; so the setting   *)
(* "enabled" of the new namespace decides whether a single-root            *)
(* invocation whose project was found goes on to create a session.         *)
Claimed(key) ==
  IF config.new[key].kind # "unset" THEN config.new[key] ELSE config.old[key]

NewNamespaceFirst == \A key \in {"bin", "enabled"} : getConfig(key) = Claimed(key)

EnabledDecides ==
  \A i \in Invocations :
    (/\ operatingMode = "single_root"
     /\ invocations[i].pc = "project"
     /\ invocations'[i].pc = "session") =>
      /\ NewNamespaceFirst
      /\ Truthy(Claimed("enabled"))

C29_NewNamespaceFirst == [][EnabledDecides]_vars

-----------------------------------------------------------------------------
(* C30: however the invocations of createActiveSession interleave, with no *)
(* stop in between, at most one language client is alive; an invocation    *)
(* made while state.activeSession is set returns at once and changes       *)
(* nothing; and every client that was created is the active session, is    *)
(* about to be assigned by the invocation that created it, or is disposed. *)
Alive(i) == clients[i] \in {"created", "started"}

OneSession ==
  /\ Cardinality({i \in Invocations : Alive(i)}) <= 1
  /\ \A i \in Invocations :
       Alive(i) => (activeSession = i \/ invocations[i].pc = "assign")

CallWhileActiveDoesNothing ==
  \A i \in Invocations :
    (/\ invocations[i].pc = "idle"
     /\ activeSession # 0
     /\ invocations'[i] # invocations[i]) =>
      /\ invocations'[i].pc = "returned"
      /\ activeSession' = activeSession
      /\ clients' = clients

C30_OneSession == [](OneSession) /\ [][CallWhileActiveDoesNothing]_vars

-----------------------------------------------------------------------------
(* C27: however provision calls for binaries of one version with the same  *)
(* bytes interleave, in one process or in several, every call that         *)
(* returns the cache path returns it while the file there holds the        *)
(* complete bytes of the original, and when all calls have ended the file  *)
(* of the cache holds those bytes.                                         *)
OriginalBytes(c) == FileIn(fs, provisions[c].bin).bytes

BenignRace ==
  /\ \A c \in Calls :
       (provisions[c].pc = "returned" /\ provisions[c].returned # NoPath) =>
         provisions[c].seen = OriginalBytes(c)
  /\ (\A c \in Calls : provisions[c].pc = "returned") =>
       \A c \in Calls : fs[provisions[c].location].bytes = OriginalBytes(c)

C27_BenignRace == BenignRace

-----------------------------------------------------------------------------
(* C31: createActiveSession, when starting the language client fails: the  *)
(* failure stays inside the call, the client that failed to start is       *)
(* disposed and state.activeSession is cleared; a call that has returned   *)
(* leaves state.activeSession set only if its client has started; and a    *)
(* call made while state.activeSession is clear attempts creation again.   *)

StartFailed(i) ==
  /\ invocations[i].pc = "start"
  /\ invocations'[i].pc = "returned"
  /\ clients'[i] # "started"

StartFailureCleansUp ==
  \A i \in Invocations :
    StartFailed(i) => clients'[i] = "disposed" /\ activeSession' = 0

ActiveOnlyIfStarted ==
  \A i \in Invocations :
    (activeSession = i /\ invocations[i].pc = "returned") => clients[i] = "started"

LaterCallTriesAgain ==
  \A i \in Invocations :
    ( /\ invocations[i].pc = "idle"
      /\ invocations'[i].pc # "idle"
      /\ activeSession = 0
      /\ operatingMode # "single_file" ) =>
        invocations'[i].pc \in {"project", "assign"}

C31_StartFailureCleansUp ==
  [](ActiveOnlyIfStarted) /\ [][StartFailureCleansUp /\ LaterCallTriesAgain]_vars

-----------------------------------------------------------------------------
(* C33: the update notification of createSession is shown only if more     *)
(* than three days have passed since the stored lastNotifiedOfUpdate and   *)
(* the installed version is outdated; the stored instant becomes the       *)
(* current time whenever more than three days have passed, shown or not,   *)
(* and stays as it is otherwise; so over any sequence of session creations *)
(* any two update notifications are more than three days apart.            *)

NotifyStep == pc = "notify" /\ pc' # "notify"

ShownOnlyWhenDueAndOutdated ==
  (NotifyStep /\ UpdateMessages # {}) => notifyDue /\ versionOutdated(version)

StampFollowsTheCheck ==
  NotifyStep =>
    IF notifyDue
    THEN lastNotifiedOfUpdate' = toISOString(now')
    ELSE lastNotifiedOfUpdate' = lastNotifiedOfUpdate

OnePerWindow ==
  \A i, j \in DOMAIN notifiedAt :
    i < j => notifiedAt[j] - notifiedAt[i] > daysToMs(3)

C33_OneNotificationPerWindow ==
  /\ [](OnePerWindow)
  /\ [][ShownOnlyWhenDueAndOutdated /\ StampFollowsTheCheck]_vars

\* the scenario: three sessions of an outdated binary; the first and the
\* last show the notification, the one between them comes too early
C33_Witness ==
  /\ pc = "idle"
  /\ callsLeft = 0
  /\ Len(history) = MaxSessions
  /\ Len(notifiedAt) = 2
  /\ lastNotifiedOfUpdate = toISOString(notifiedAt[2])

-----------------------------------------------------------------------------
(* C32: every configuration change that affects the                        *)
(* "postgres-language-server" or the "postgrestools" namespace is followed *)
(* by a restart, also when it arrives while state.state is "restarting" or *)
(* "stopping", so that the running session eventually reflects the latest  *)
(* configuration; a change that affects neither namespace never triggers a *)
(* restart.                                                                *)

HandlerStep == pendingEvent.pending /\ ~pendingEvent'.pending

Affecting == pendingEvent.new \/ pendingEvent.old

ChangeRestarts ==
  HandlerStep =>
    IF Affecting THEN restarts' = restarts + 1 ELSE restarts' = restarts

SessionReflectsSettings == lifecycle = "started" => sessionEdition = edition

C32_ChangeRestarts == [][ChangeRestarts]_vars /\ <>[](SessionReflectsSettings)

====
